---- MODULE Spec2Model ----
(***************************************************************************)
(* hahomematic: backend connectivity.                                      *)
(*                                                                         *)
(* Part 1  Async Proxy Bridge    client.py  (Client.__init__,              *)
(*         async_add_proxy_executor_job): legacy RPC calls of a            *)
(*         Connection run on a ThreadPoolExecutor(max_workers=1).          *)
(* Part 2  JSON-RPC Session Manager   json_rpc_client.py                   *)
(*         (JsonRpcAioHttpClient): login / renew / logout, _post,          *)
(*         _do_post and its exception handlers.                            *)
(*                                                                         *)
(* Part 3  Connection lifecycle   client.py  (Client.proxy_init,           *)
(*         proxy_de_init, proxy_re_init, is_connected,                     *)
(*         ClientCCU._check_connection, get_service_messages).             *)
(* Part 4  Paramset cache   client.py  (Client.fetch_paramset,             *)
(*         fetch_paramsets, fetch_all_paramsets, update_paramsets).        *)
(*                                                                         *)
(* Part 5  Call Parameter Collector   platforms/entity.py                  *)
(*         (CallParameterCollector), decorators.py (bind_collector),       *)
(*         platforms/custom/light.py (BaseHmLight.turn_on).                *)
(*                                                                         *)
(* Part 6  Client flavors   client.py  (ClientFactory.get_client,          *)
(*         ClientCCU and ClientHomegear system-variable operations,        *)
(*         fetch_names, get_virtual_remote), json_rpc_client.py            *)
(*         (set_system_variable).                                          *)
(*                                                                         *)
(* Each part has its own specification (SpecProxy, SpecSession,            *)
(* SpecClient, SpecCache); the variables of the other parts stay at their  *)
(* initial value.                                                          *)
(***************************************************************************)
EXTENDS Integers, Sequences, FiniteSets, TLC

VARIABLES
    \* ---- Part 1: per Connection, the state of Client._proxy_executor
    work_queue,     \* conn -> Seq of job ids waiting in the executor's queue
    running,        \* conn -> set of job ids a worker thread is executing
    started,        \* conn -> Seq of job ids in the order they began to execute
    finished,       \* conn -> set of job ids whose future is resolved
    submitted,      \* conn -> number of jobs submitted so far (job ids 1..n)
    executor,       \* conn -> whether shutdown() was called, the jobs then
                    \* outstanding, and the jobs that raised NoConnection
    \* ---- Part 2: one JsonRpcAioHttpClient and the backend it talks to
    username,       \* self._username   (constructor argument)
    password,       \* self._password   (constructor argument)
    session_id,     \* self._session_id, NoSession for None
    last_session_id_refresh, \* self._last_session_id_refresh, NoRefresh for None
    now,            \* datetime.now(), in seconds
    token_refreshed,\* when the stored token was last obtained or renewed
    backend_live,   \* tokens the backend handed out and still accepts
    issued,         \* number of tokens the backend handed out
    task,           \* consumer task -> its call in progress
    \* ---- Part 3: one Client (Connection)
    connect,        \* self.connect   (constructor argument)
    time_initialized, \* self.time_initialized
    client,         \* the Client operation in progress, or the last one
    \* ---- Part 4: central.paramsets_cache[interface_id] of that Client
    paramsets_cache,  \* address -> its entry in the cache
    paramsets_saved,  \* what central.save_paramsets() wrote last
    fetch,          \* the fetch operation in progress, or the last one
    devices_raw_dict, \* central.devices_raw_dict: the device descriptions
    concurrent_fetch, \* the fetch operation of a second task of the event
                    \* loop, in progress or the last one
    \* ---- Part 5: the CallParameterCollector objects and their users
    collectors,     \* the collectors that exist
    decorated,      \* caller -> its bind_collector-decorated call in progress
    \* ---- Part 6: the client ClientFactory.get_client resolved
    flavor,         \* its class, "none" while none was created
    version,        \* the version string it was resolved from
    sysvar,         \* its operation in progress, or the last one
    central,        \* central.clients and central.clients_by_init_url
    \* ---- Part 7: two Connections of one central unit
    conn,           \* conn -> the attributes of its Client and session manager
    interface_caches \* central.paramsets_cache: interface_id -> its entries

ProxyVars == <<work_queue, running, started, finished, submitted, executor>>

SessionVars == <<username, password, session_id, last_session_id_refresh, now,
                 token_refreshed, backend_live, issued, task>>

ClientVars == <<connect, time_initialized, client>>

CacheVars == <<paramsets_cache, paramsets_saved, fetch, devices_raw_dict,
               concurrent_fetch>>

CollectorVars == <<collectors, decorated>>

FlavorVars == <<flavor, version, sysvar, central>>

ConnVars == <<conn, interface_caches>>

vars == <<work_queue, running, started, finished, submitted, executor,
          username, password, session_id, last_session_id_refresh, now,
          token_refreshed, backend_live, issued, task,
          connect, time_initialized, client,
          paramsets_cache, paramsets_saved, fetch, devices_raw_dict,
          concurrent_fetch,
          collectors, decorated, flavor, version, sysvar, central,
          conn, interface_caches>>

(***************************************************************************)
(* Bounds                                                                  *)
(***************************************************************************)
MaxJobs == 3            \* legacy calls submitted per Connection
MaxTokens == 2          \* successful Session.login answers of the backend
MaxDepth == 2           \* nested Session.logout requests the backend answers
                        \* with an error before it answers anything else
MaxDays == 1            \* whole days the clock advances
MaxSecs == 90           \* seconds within a day the clock advances
MaxCalls == 2           \* legacy calls per Connection when two Connections
                        \* run side by side

Connections == {1, 2}   \* Connections (Client objects)
Tasks == {1, 2}         \* consumer tasks that call the session manager

(***************************************************************************)
(* Part 1: Async Proxy Bridge                                              *)
(***************************************************************************)

\* client.py:105  ThreadPoolExecutor(max_workers=1)
max_workers == 1

\* A pool: more than one worker thread may take a job.
WorkerAvailable_Pool(c) == Cardinality(running[c]) < max_workers + 1

\* The executor starts a job only on a free worker thread, and it has
\* max_workers of them.
WorkerAvailable(c) == Cardinality(running[c]) < max_workers

\* The executor's queue is FIFO: a worker takes the oldest waiting job.
NextJob(q) == Head(q)

\* async_add_proxy_executor_job: loop.run_in_executor(self._proxy_executor,
\* func, *args) puts the job at the end of the executor's queue; the caller
\* awaits its future.
\* After shutdown() the executor takes no new job (submit raises).
AddProxyExecutorJob(c) ==
    /\ submitted[c] < MaxJobs
    /\ ~executor[c].shutdown
    /\ submitted' = [submitted EXCEPT ![c] = @ + 1]
    /\ work_queue' = [work_queue EXCEPT ![c] = Append(@, submitted[c] + 1)]
    /\ UNCHANGED <<running, started, finished, executor>>

\* A worker thread of the executor takes the next job and runs func(*args).
WorkerStart(c) ==
    /\ work_queue[c] # <<>>
    /\ WorkerAvailable(c)
    /\ LET j == NextJob(work_queue[c]) IN
        /\ running' = [running EXCEPT ![c] = @ \cup {j}]
        /\ started' = [started EXCEPT ![c] = Append(@, j)]
        /\ work_queue' = [work_queue EXCEPT ![c] = Tail(@)]
    /\ UNCHANGED <<finished, submitted, executor>>

\* func(*args) returns or raises: the future is resolved, the awaiting
\* caller resumes, the worker thread is free again.  The transport decides
\* whether the call raises NoConnection.
WorkerFinish(c) ==
    /\ \E j \in running[c] : \E raised \in BOOLEAN :
        /\ running' = [running EXCEPT ![c] = @ \ {j}]
        /\ finished' = [finished EXCEPT ![c] = @ \cup {j}]
        /\ executor' = [executor EXCEPT ![c].no_connection =
                            IF raised THEN @ \cup {j} ELSE @]
    /\ UNCHANGED <<work_queue, started, submitted>>

\* ThreadPoolExecutor(max_workers=1) as constructed (line 105).
NewExecutor == [shutdown |-> FALSE, outstanding |-> {}, no_connection |-> {}]

\* Client.stop (lines 197-199): self._proxy_executor.shutdown(), that is
\* shutdown(wait=True, cancel_futures=False): the queue is left as it is,
\* the worker thread goes on taking jobs until the queue is empty and ends
\* then.
Stop(c) ==
    /\ ~executor[c].shutdown
    /\ executor' = [executor EXCEPT
                       ![c].shutdown = TRUE,
                       ![c].outstanding =
                           running[c] \cup {work_queue[c][i] : i \in DOMAIN work_queue[c]}]
    /\ UNCHANGED <<work_queue, running, started, finished, submitted>>

(***************************************************************************)
(* Part 2: JSON-RPC Session Manager                                        *)
(***************************************************************************)

\* json_rpc_client.py:90   self._session_id = None
NoSession == 0
\* json_rpc_client.py:89   self._last_session_id_refresh = None
NoRefresh == -1
\* json_rpc_client.py:41
MAX_JSON_SESSION_AGE == 90
\* datetime.timedelta keeps days and seconds apart: 0 <= seconds < 86400
SecondsPerDay == 86400

\* Constructor arguments username / password: None, empty, or a value.
PyNone == "<None>"
CredValues == {PyNone, "", "admin"}

\* The clock advances by these steps (seconds).
ClockSteps == {45, SecondsPerDay}

\* What the backend (or the transport) answers to one request.
\*   ok        HTTP 200, no error, truthy result
\*   null      HTTP 200, no error, falsy result (Session.login, Session.renew)
\*   denied    HTTP 200, error message starting with "access denied"
\*   error     HTTP 200, any other error message
\*   status    HTTP status other than 200
\*   refused   ClientConnectorError / ClientError (connection refused)
\*   tls       ClientConnectorCertificateError or SSLError
\*   parse     the body cannot be parsed (ValueError out of response.json)
EnvelopeErrors == {"denied", "error"}
TransportFailures == {"refused", "tls", "parse"}
Responses == {"ok", "null", "status"} \cup EnvelopeErrors \cup TransportFailures

LoginCtx == {"login", "login_fallback", "login_oneshot"}
LogoutCtx == {"logout", "logout_oneshot", "logout_h"}

\* The JSON-RPC method a _do_post call sends, by the place that calls it.
Method(ctx) ==
    CASE ctx \in LoginCtx -> "Session.login"
      [] ctx = "renew" -> "Session.renew"
      [] ctx \in LogoutCtx -> "Session.logout"
      [] OTHER -> "consumer"

\* hahomematic.exceptions: AuthFailure and ClientException are two kinds
\* of failure, neither a special case of the other.
IsClientException(e) == e = "ClientException"

\* logout, lines 337-341: except ClientException -> log and return.
LogoutCatches(e) == IsClientException(e)

\* _has_credentials (lines 361-364)
HasCredentials(u, p) == u # PyNone /\ u # "" /\ p # PyNone

\* timedelta.seconds of a non-negative timedelta of d seconds.
TimedeltaSeconds(d) == d % SecondsPerDay

\* _updated_within_seconds (lines 125-132)
UpdatedWithinSeconds(last, t) ==
    /\ last # NoRefresh
    /\ TimedeltaSeconds(t - last) < MAX_JSON_SESSION_AGE

\* _do_post lines 284-290: classification of an error envelope; line 299
\* for a status other than 200.
RaisedFor(r) == IF r = "denied" THEN "AuthFailure" ELSE "ClientException"

IdleTask == [op |-> "none", st |-> "idle", stack |-> <<>>, out |-> "none",
             orig |-> "none", sid_exit |-> NoSession,
             entry |-> "none", calls |-> <<>>, ret |-> "none"]

\* One _do_post call awaiting its answer.  sid: the session_id argument;
\* exc: the exception its handler (lines 300-303) will re-raise;
\* stale, reuse: observations made when a consumer method is sent.
Frame(ctx, sid, m) ==
    [ctx |-> ctx, sid |-> sid, exc |-> "none",
     stale |-> /\ ctx = "method"
               /\ now - m.tref >= MAX_JSON_SESSION_AGE,
     reuse |-> /\ ctx = "method"
               /\ m.sid # NoSession
               /\ UpdatedWithinSeconds(m.stamp, now)]

\* The call returns to the consumer (out = "ok") or raises out.
Finish(m, out) ==
    [m EXCEPT !.tk.st = "done", !.tk.out = out, !.tk.sid_exit = m.sid,
              !.tk.stack = <<>>]

\* clear_session (lines 423-425)
ClearSession(m) == [m EXCEPT !.sid = NoSession, !.tref = NoRefresh]

Pop(m) == [m EXCEPT !.tk.stack = SubSeq(@, 1, Len(@) - 1)]

Top(m) == m.tk.stack[Len(m.tk.stack)]

\* The top _do_post / _do_logout frame is left with sig: "return" or an
\* exception.  Runs the finally of _do_logout (line 359), the except of
\* logout (line 339) and the raise of the handler (line 303) up to the
\* consumer.
RECURSIVE Propagate(_, _)
Propagate(m, sig) ==
    LET f == Top(m)
        swallowed == sig = "return" \/ LogoutCatches(sig)
    IN  CASE f.ctx = "logout_h" ->
                LET m1 == Pop(ClearSession(m))
                IN  Propagate(m1, IF swallowed THEN Top(m1).exc ELSE sig)
          [] f.ctx = "logout" ->
                Finish(ClearSession(m), IF swallowed THEN "ok" ELSE sig)
          [] f.ctx = "logout_oneshot" ->
                Finish(ClearSession(m), IF sig = "return" THEN "ok" ELSE sig)
          [] OTHER -> Finish(m, sig)

\* _do_post (lines 245-282): without credentials it raises before the try;
\* otherwise the request is sent and the task awaits the answer.
DoPost(m, ctx, sid) ==
    LET m1 == [m EXCEPT !.tk.stack = Append(@, Frame(ctx, sid, m)),
                        !.tk.st = "wait"]
    IN  IF HasCredentials(username, password)
        THEN m1
        ELSE Propagate(m1, "ClientException")

\* _post lines 175-183, after the session id was determined.
PostSend(m, ctx, sid) ==
    IF sid = NoSession
    THEN Finish(m, "ClientException")
    ELSE DoPost(m, ctx, sid)

\* _do_post lines 300-303: except (AuthFailure, ClientException):
\* await self.logout(); raise.  logout sends Session.logout only if a
\* session id is stored (lines 345-347).
Handler(m, e) ==
    IF m.sid = NoSession
    THEN Propagate(m, e)
    ELSE DoPost([m EXCEPT !.tk.stack[Len(m.tk.stack)].exc = e],
                "logout_h", m.sid)

\* A handler that forgets clear_session.
OnTransportFailure_NoClear(m) == Propagate(m, "ClientException")

\* _do_post lines 304-321: clear_session(); raise ClientException(...)
OnTransportFailure(m) == Propagate(ClearSession(m), "ClientException")

\* The session manager as one consumer task sees it when it runs.
Machine(tk) ==
    [sid |-> session_id, stamp |-> last_session_id_refresh,
     tref |-> token_refreshed, tk |-> tk]

\* _do_login returned None (no credentials, lines 136-138, or a falsy
\* result, lines 156-159): the caller stores None (line 100 or 104) and
\* _post raises "Error while logging in" (lines 175-176).
LoginFailed(m) ==
    Finish([m EXCEPT !.sid = NoSession, !.tref = NoRefresh, !.tk.ret = "false"],
           "ClientException")

\* _post(keep_session=True) up to its first request: _login_or_renew
\* (lines 97-105), _do_renew_login (107-116), _do_login (134-152).
StartPost(m) ==
    IF m.sid = NoSession
    THEN LET m1 == [m EXCEPT !.tk.entry = "nosession"]
         IN  IF HasCredentials(username, password)
             THEN DoPost([m1 EXCEPT !.tk.calls = <<"Session.login">>],
                         "login", NoSession)
             ELSE LoginFailed([m1 EXCEPT !.stamp = now])
    ELSE LET m1 == [m EXCEPT !.tk.entry =
                        IF m.stamp # NoRefresh
                           /\ now - m.stamp < MAX_JSON_SESSION_AGE
                        THEN "fresh" ELSE "elapsed"]
         IN  IF UpdatedWithinSeconds(m.stamp, now)
             THEN PostSend([m1 EXCEPT !.tk.ret = "true"], "method", m1.sid)
             ELSE DoPost([m1 EXCEPT !.tk.calls = <<"Session.renew">>],
                         "renew", m.sid)

\* A one-shot call that goes by the kept session.
StartOneShot_KeepSession(m) == StartPost(m)

\* _post(keep_session=False) up to its first request (line 173).
StartOneShot(m) ==
    IF HasCredentials(username, password)
    THEN DoPost(m, "login_oneshot", NoSession)
    ELSE Finish(m, "ClientException")

\* logout (lines 335-341) and _do_logout (343-356) up to the request.
StartLogout(m) ==
    IF m.sid = NoSession
    THEN Finish(m, "ok")
    ELSE DoPost(m, "logout", m.sid)

\* The code that runs when a _do_post call returns its response, up to the
\* next request or the end of the consumer's call.  tok: the token a
\* successful Session.login returned.
Returned(m, r, tok) ==
    LET f == Top(m)
        p == Pop(m)
    IN  CASE f.ctx = "login" ->          \* lines 100-102, then 171-183
                IF r = "ok"
                THEN PostSend([p EXCEPT !.sid = tok, !.stamp = now,
                                        !.tref = now, !.tk.ret = "true"],
                              "method", tok)
                ELSE LoginFailed([p EXCEPT !.stamp = now])
          [] f.ctx = "renew" ->          \* lines 118-123, then 104-105
                IF r = "ok"
                THEN PostSend([p EXCEPT !.sid = f.sid, !.stamp = now,
                                        !.tref = now, !.tk.ret = "true"],
                              "method", f.sid)
                ELSE IF HasCredentials(username, password)
                     THEN DoPost([p EXCEPT !.tk.calls = Append(@, "Session.login")],
                                 "login_fallback", NoSession)
                     ELSE LoginFailed(p)
          [] f.ctx = "login_fallback" -> \* line 123 returns to line 104
                IF r = "ok"
                THEN PostSend([p EXCEPT !.sid = tok, !.tref = now,
                                        !.tk.ret = "true"],
                              "method", tok)
                ELSE LoginFailed(p)
          [] f.ctx = "login_oneshot" ->  \* lines 173-183
                IF r = "ok"
                THEN PostSend(p, "method_oneshot", tok)
                ELSE Finish(p, "ClientException")
          [] f.ctx = "method" ->         \* line 193
                Finish(p, "ok")
          [] f.ctx = "method_oneshot" -> \* lines 190-191, 345-356
                DoPost(p, "logout_oneshot", f.sid)
          [] OTHER ->                    \* Session.logout answered
                Propagate(m, "return")

\* _do_post from the answer on (lines 280-321).
Answer(m, r, tok) ==
    LET m0 == IF Len(m.tk.stack) = 1 /\ r \notin {"ok", "null"}
              THEN [m EXCEPT !.tk.orig = r]
              ELSE m
    IN  CASE r \in TransportFailures -> OnTransportFailure(m0)
          [] r \in EnvelopeErrors \cup {"status"} -> Handler(m0, RaisedFor(r))
          [] OTHER -> Returned(m0, r, tok)

\* What the backend can answer to the request of frame f.
CanAnswer(f, depth, r) ==
    CASE r = "ok" ->
            CASE f.ctx \in LoginCtx -> issued < MaxTokens
              [] f.ctx \in LogoutCtx -> TRUE
              [] OTHER -> f.sid \in backend_live
      [] r = "null" -> f.ctx \in LoginCtx \cup {"renew"}
      [] r \in EnvelopeErrors \cup {"status"} -> depth <= MaxDepth
      [] OTHER -> TRUE

\* The backend's sessions after it answered r to the request of frame f.
BackendLive(f, r) ==
    CASE r = "ok" /\ f.ctx \in LoginCtx -> backend_live \cup {issued + 1}
      [] r = "ok" /\ f.ctx \in LogoutCtx -> backend_live \ {f.sid}
      [] r = "null" /\ f.ctx = "renew" -> backend_live \ {f.sid}
      [] OTHER -> backend_live

Store(t, m) ==
    /\ session_id' = m.sid
    /\ last_session_id_refresh' = m.stamp
    /\ token_refreshed' = m.tref
    /\ task' = [task EXCEPT ![t] = m.tk]

\* A consumer task calls _post(method) with keep_session=True.
Post(t) ==
    /\ task[t].st # "wait"
    /\ Store(t, StartPost(Machine([IdleTask EXCEPT !.op = "post"])))
    /\ UNCHANGED <<username, password, now, backend_live, issued>>
    /\ UNCHANGED <<ProxyVars, ClientVars, CacheVars, CollectorVars, FlavorVars, ConnVars>>

\* A consumer task calls _post(method, keep_session=False).
PostOneShot(t) ==
    /\ task[t].st # "wait"
    /\ Store(t, StartOneShot(Machine([IdleTask EXCEPT !.op = "oneshot"])))
    /\ UNCHANGED <<username, password, now, backend_live, issued>>
    /\ UNCHANGED <<ProxyVars, ClientVars, CacheVars, CollectorVars, FlavorVars, ConnVars>>

\* A consumer task calls logout().
Logout(t) ==
    /\ task[t].st # "wait"
    /\ Store(t, StartLogout(Machine([IdleTask EXCEPT !.op = "logout"])))
    /\ UNCHANGED <<username, password, now, backend_live, issued>>
    /\ UNCHANGED <<ProxyVars, ClientVars, CacheVars, CollectorVars, FlavorVars, ConnVars>>

\* The answer to the request task t awaits arrives; t runs to its next
\* request or to the end of its call.
Respond(t, r) ==
    /\ task[t].st = "wait"
    /\ LET m == Machine(task[t])
           f == Top(m)
       IN  /\ CanAnswer(f, Len(task[t].stack), r)
           /\ backend_live' = BackendLive(f, r)
           /\ issued' = IF r = "ok" /\ f.ctx \in LoginCtx THEN issued + 1 ELSE issued
           /\ Store(t, Answer(m, r, issued + 1))
    /\ UNCHANGED <<username, password, now>>
    /\ UNCHANGED <<ProxyVars, ClientVars, CacheVars, CollectorVars, FlavorVars, ConnVars>>

\* Time passes.
Tick(d) ==
    /\ IF d = SecondsPerDay
       THEN now \div SecondsPerDay < MaxDays
       ELSE (now % SecondsPerDay) + d <= MaxSecs
    /\ now' = now + d
    /\ UNCHANGED <<username, password, session_id, last_session_id_refresh,
                   token_refreshed, backend_live, issued, task>>
    /\ UNCHANGED <<ProxyVars, ClientVars, CacheVars, CollectorVars, FlavorVars, ConnVars>>

\* set_system_variable of the session manager (json_rpc_client.py lines
\* 386-421, a boolean or numeric value): what it hands to its consumer,
\* given how its _post call ended.  delete_system_variable and
\* get_system_variable have the same except clause.
SetSystemVariable(out) ==
    CASE out = "ok" -> "True"
      [] IsClientException(out) -> "False"
      [] OTHER -> out

\* ClientCCU.set_system_variable, JSON-RPC path (client.py lines 499-529):
\* login is what login_or_renew returned ("none": it raised), out the way
\* the call ended.  Line 501 is outside the try block; the except clause
\* of line 528 takes every exception of the post call.
ClientCCU_SetSystemVariable(login, out) ==
    CASE login = "false" -> "None"
      [] login = "none" -> out
      [] OTHER -> "None"

(***************************************************************************)
(* Part 3: Connection lifecycle                                            *)
(***************************************************************************)

\* config.INIT_TIMEOUT: the freshness window of is_connected, in seconds.
INIT_TIMEOUT == 90

\* int(time.time()): seconds since the epoch, a positive number.
UnixTime == SecondsPerDay + now

\* How a legacy RPC call (self.proxy.<method>) ends.
\*   ok              it returns a truthy result
\*   false           it returns a falsy result (ping)
\*   ProxyException  it raises ProxyException
\*   NoConnection    it raises NoConnection
LegacyAnswers == {"ok", "false", "ProxyException", "NoConnection"}

\* hahomematic.proxy: NoConnection and ProxyException are two kinds of
\* failure of a legacy call, neither a special case of the other.
IsProxyException(e) == e = "ProxyException"

\* A Client operation.  calls: what it called so far (the session
\* manager's logout, legacy RPC calls); inner: the operations proxy_re_init
\* went through; de_init: how the de-init of this operation ended;
\* ti_entry, sid_entry: time_initialized and the session token when the
\* operation began; answer: how its last legacy RPC call ended; at: the
\* time it returned.
IdleClient == [op |-> "none", pc |-> "idle", out |-> "none", calls |-> <<>>,
               inner |-> <<>>, de_init |-> "none", ti_entry |-> 0,
               sid_entry |-> NoSession, answer |-> "none", at |-> 0]

\* The operation returns v, or raises v.
Return(k, v) == [k EXCEPT !.cl.pc = "done", !.cl.out = v, !.cl.at = UnixTime]

\* The operation awaits self.proxy.<rpc>(...).
LegacyCall(k, rpc, pc) ==
    [k EXCEPT !.cl.pc = pc, !.cl.calls = Append(@, rpc)]

\* proxy_init up to its await (lines 140-151).
InitStart(k) ==
    LET k1 == [k EXCEPT !.cl.inner = Append(@, "proxy_init")]
    IN  IF ~connect
        THEN Return(k1, "PROXY_INIT_SKIPPED")
        ELSE LegacyCall(k1, "proxy.init(init_url, interface_id)", "init")

\* proxy_init from the end of proxy.init (lines 151-160).
InitAnswer(k, a) ==
    CASE a = "ok" -> Return([k EXCEPT !.ti = UnixTime], "PROXY_INIT_SUCCESS")
      [] IsProxyException(a) -> Return([k EXCEPT !.ti = 0], "PROXY_INIT_FAILED")
      [] OTHER -> Return(k, a)

\* proxy_de_init returns status: to its caller, or to proxy_re_init, which
\* goes on with proxy_init unless the status is PROXY_DE_INIT_FAILED and
\* otherwise returns nothing (lines 191-195).
DeInitReturn_AlwaysInit(k, status) ==
    IF k.cl.op = "proxy_re_init"
    THEN InitStart([k EXCEPT !.cl.de_init = status])
    ELSE Return([k EXCEPT !.cl.de_init = status], status)

DeInitReturn(k, status) ==
    LET k1 == [k EXCEPT !.cl.de_init = status]
    IN  IF k.cl.op = "proxy_re_init"
        THEN IF status # "PROXY_DE_INIT_FAILED"
             THEN InitStart(k1)
             ELSE Return(k1, "None")
        ELSE Return(k1, status)

\* proxy_de_init raises e; so does proxy_re_init.
DeInitRaise(k, e) == Return([k EXCEPT !.cl.de_init = e], e)

\* proxy_de_init after the logout, up to its await (lines 166-180).
DeInitDecide(k) ==
    CASE ~connect -> DeInitReturn(k, "PROXY_DE_INIT_SKIPPED")
      [] k.ti = 0 -> DeInitReturn(k, "PROXY_DE_INIT_SKIPPED")
      [] OTHER -> LegacyCall(k, "proxy.init(init_url)", "de_init")

\* proxy_de_init from the end of proxy.init (lines 180-189).
DeInitAnswer(k, a) ==
    CASE a = "ok" -> DeInitReturn([k EXCEPT !.ti = 0], "PROXY_DE_INIT_SUCCESS")
      [] IsProxyException(a) -> DeInitReturn(k, "PROXY_DE_INIT_FAILED")
      [] OTHER -> DeInitRaise(k, a)

\* is_connected from the end of the probe: _check_connection (lines
\* 483-495; ClientHomegear lines 642-656 with clientServerInitialized in
\* the place of ping), then lines 219-225.
IsConnectedAnswer(k, a) ==
    IF a = "ok"
    THEN LET k1 == [k EXCEPT !.ti = UnixTime]
             diff == UnixTime - k1.ti
         IN  Return(k1, IF diff < INIT_TIMEOUT THEN "True" ELSE "False")
    ELSE Return([k EXCEPT !.ti = 0], "False")

\* get_service_messages from the end of its call (lines 259-262); the
\* other telemetry operations (lines 264-336) have the same shape.
TelemetryAnswer(k, a) ==
    CASE a = "ok" -> Return(k, "result")
      [] IsProxyException(a) -> Return(k, "None")
      [] OTHER -> Return(k, a)

ClientIdle == client.pc \in {"idle", "done"}

ClientMachine(op) ==
    [ti |-> time_initialized,
     cl |-> [IdleClient EXCEPT !.op = op, !.ti_entry = time_initialized,
                               !.sid_entry = session_id]]

ClientStore(k) ==
    /\ time_initialized' = k.ti
    /\ client' = k.cl

\* The consumer calls proxy_init().
ProxyInit ==
    /\ ClientIdle
    /\ ClientStore(InitStart(ClientMachine("proxy_init")))
    /\ UNCHANGED <<connect, SessionVars, ProxyVars, CacheVars, CollectorVars, FlavorVars, ConnVars>>

\* The consumer calls proxy_de_init() or proxy_re_init(): lines 166-167,
\* then, without a session, on to the decision.
ProxyDeInit(op) ==
    /\ ClientIdle
    /\ LET k == [ClientMachine(op) EXCEPT !.cl.inner = <<"proxy_de_init">>]
       IN  IF session_id # NoSession
           THEN /\ Store(1, StartLogout(Machine([IdleTask EXCEPT !.op = "logout"])))
                /\ ClientStore([k EXCEPT !.cl.pc = "logout",
                                         !.cl.calls = <<"logout">>])
                /\ UNCHANGED <<username, password, now, backend_live, issued>>
           ELSE /\ ClientStore(DeInitDecide(k))
                /\ UNCHANGED SessionVars
    /\ UNCHANGED <<connect, ProxyVars, CacheVars, CollectorVars, FlavorVars, ConnVars>>

\* json_rpc_session.logout() has returned or raised: proxy_de_init goes on
\* at line 168, or the exception leaves it.
LogoutReturned ==
    /\ client.pc = "logout"
    /\ task[1].st = "done"
    /\ LET k == [ti |-> time_initialized, cl |-> client]
       IN  ClientStore(IF task[1].out = "ok"
                       THEN DeInitDecide(k)
                       ELSE DeInitRaise(k, task[1].out))
    /\ task' = [task EXCEPT ![1] = IdleTask]
    /\ UNCHANGED <<username, password, session_id, last_session_id_refresh,
                   now, token_refreshed, backend_live, issued>>
    /\ UNCHANGED <<connect, ProxyVars, CacheVars, CollectorVars, FlavorVars, ConnVars>>

\* The consumer calls is_connected(): the probe is sent.
IsConnected ==
    /\ ClientIdle
    /\ ClientStore(LegacyCall(ClientMachine("is_connected"),
                              "proxy.ping(interface_id)", "ping"))
    /\ UNCHANGED <<connect, SessionVars, ProxyVars, CacheVars, CollectorVars, FlavorVars, ConnVars>>

\* The consumer calls get_service_messages().
GetServiceMessages ==
    /\ ClientIdle
    /\ ClientStore(LegacyCall(ClientMachine("get_service_messages"),
                              "proxy.getServiceMessages()", "call"))
    /\ UNCHANGED <<connect, SessionVars, ProxyVars, CacheVars, CollectorVars, FlavorVars, ConnVars>>

\* The other telemetry operations and the legacy RPC call of each: RSSI,
\* install mode and metadata (lines 264-320).
TelemetryRpc ==
    [rssi_info |-> "proxy.rssiInfo()",
     set_install_mode |-> "proxy.setInstallMode(*args)",
     get_install_mode |-> "proxy.getInstallMode()",
     get_all_metadata |-> "proxy.getAllMetadata(address)",
     get_metadata |-> "proxy.getMetadata(address, key)",
     set_metadata |-> "proxy.setMetadata(address, key, value)",
     delete_metadata |-> "proxy.deleteMetadata(address, key)"]

\* The consumer calls one of them.
Telemetry(op) ==
    /\ ClientIdle
    /\ ClientStore(LegacyCall(ClientMachine(op), TelemetryRpc[op], "call"))
    /\ UNCHANGED <<connect, SessionVars, ProxyVars, CacheVars, CollectorVars, FlavorVars, ConnVars>>

\* The legacy RPC call the Client operation awaits ends with a.
LegacyAnswer(a) ==
    /\ client.pc \in {"init", "de_init", "ping", "call"}
    /\ a = "false" => client.pc = "ping"
    /\ LET k == [ti |-> time_initialized,
                 cl |-> [client EXCEPT !.answer = a]]
       IN  ClientStore(CASE client.pc = "init" -> InitAnswer(k, a)
                         [] client.pc = "de_init" -> DeInitAnswer(k, a)
                         [] client.pc = "ping" -> IsConnectedAnswer(k, a)
                         [] OTHER -> TelemetryAnswer(k, a))
    /\ UNCHANGED <<connect, SessionVars, ProxyVars, CacheVars, CollectorVars, FlavorVars, ConnVars>>

\* A JSON-RPC call of the consumer logged in (lines 97-102, 134-159): the
\* session manager holds a token.
SessionLogin ==
    /\ ClientIdle
    /\ session_id = NoSession
    /\ HasCredentials(username, password)
    /\ issued < MaxTokens
    /\ session_id' = issued + 1
    /\ last_session_id_refresh' = now
    /\ token_refreshed' = now
    /\ backend_live' = backend_live \cup {issued + 1}
    /\ issued' = issued + 1
    /\ UNCHANGED <<username, password, now, task>>
    /\ UNCHANGED <<ProxyVars, ClientVars, CacheVars, CollectorVars, FlavorVars, ConnVars>>

(***************************************************************************)
(* Part 4: Paramset cache                                                  *)
(***************************************************************************)

\* Device / channel addresses of the interface, and paramset kinds.
Addresses == {"VCU0000001:1", "VCU0000002:1"}
Kinds == {"VALUES", "MASTER"}

\* hahomematic.const.RELEVANT_PARAMSETS: the fixed allow-list of kinds
\* fetch_paramsets goes through, in this order.
RELEVANT_PARAMSETS == <<"VALUES", "MASTER">>

\* What proxy.getParamsetDescription returns: one of two descriptions.
Descriptions == {"d1", "d2"}

\* How a describe call ends: a description, or a raised exception.
DescribeAnswers == Descriptions \cup {"ProxyException", "NoConnection"}

\* The same for the operations that go through several addresses: one
\* description is enough to tell the answers apart.
BatchAnswers == {"d1", "ProxyException", "NoConnection"}

\* The address fetch_paramset and fetch_paramsets are called for.
FetchAddresses == {"VCU0000001:1"}

\* paramsets_cache[interface_id][address]: present is FALSE while the
\* address is not a key of the cache; kinds[k] is "missing" while k is not
\* a key of the entry, "empty" for {}, or a description.
NoEntry == [present |-> FALSE, kinds |-> [k \in Kinds |-> "missing"]]
EmptyEntry == [present |-> TRUE, kinds |-> [k \in Kinds |-> "missing"]]

\* A fetch operation.  todo: kinds fetch_paramsets still goes through;
\* describes: the describe calls it issued so far; answers: how the
\* describe call for a kind ended; before: the entry's kinds when the
\* operation began.
\* pending: the descriptions fetch_all_paramsets still goes through;
\* described: the addresses a describe call was issued for; had: the
\* addresses that had an entry when the operation began; known: the
\* addresses of the device descriptions when it began.
IdleFetch == [op |-> "none", pc |-> "idle", out |-> "none",
              address |-> "none", kind |-> "none", update |-> FALSE,
              todo |-> <<>>, describes |-> <<>>,
              answers |-> [k \in Kinds |-> "none"],
              before |-> NoEntry.kinds,
              skip_existing |-> FALSE, pending |-> <<>>,
              described |-> {}, had |-> {}, known |-> {},
              advertised |-> {}]

\* central.devices_raw_dict: present is FALSE while interface_id is not a
\* key of it; devices are the device descriptions of the interface in the
\* order of the dict, each with its ADDRESS and its PARAMSETS.
NoDevices == [present |-> FALSE, devices |-> <<>>]

\* The PARAMSETS a device description advertises.
AdvertisedSets == {{"MASTER"}, {"VALUES", "MASTER"}}

KnownAddresses(devices) == {devices[i].address : i \in DOMAIN devices}

CacheMachine(op, address, kind, update) ==
    [cache |-> paramsets_cache, saved |-> paramsets_saved,
     devices |-> devices_raw_dict,
     f |-> [IdleFetch EXCEPT !.op = op, !.address = address, !.kind = kind,
                             !.update = update,
                             !.before = paramsets_cache[address].kinds,
                             !.had = {a \in Addresses :
                                         paramsets_cache[a].present}]]

\* await self.central.save_paramsets()
SaveParamsets(c) == [c EXCEPT !.saved = c.cache]

FetchReturn(c, v) == [c EXCEPT !.f.pc = "done", !.f.out = v]

\* The operation awaits proxy.getParamsetDescription(address, kind).
Describe(c, kind) ==
    [c EXCEPT !.f.pc = "describe", !.f.kind = kind,
              !.f.describes = Append(@, kind),
              !.f.described = @ \cup {c.f.address}]

\* fetch_paramset up to its await (lines 342-356), or to its end when
\* nothing is to be fetched (line 361).
FetchParamsetStart(c) ==
    LET a == c.f.address
        c1 == IF c.cache[a].present THEN c
              ELSE [c EXCEPT !.cache[a] = EmptyEntry]
    IN  IF c1.cache[a].kinds[c.f.kind] = "missing" \/ c.f.update
        THEN Describe(c1, c.f.kind)
        ELSE FetchReturn(SaveParamsets(c1), "None")

\* fetch_paramset from the end of the describe call (lines 353-361).
FetchParamsetAnswer_StoreEmpty(c, r) ==
    LET a == c.f.address
        k == c.f.kind
    IN  CASE r \in Descriptions ->
                FetchReturn(SaveParamsets([c EXCEPT !.cache[a].kinds[k] = r]), "None")
          [] IsProxyException(r) ->
                FetchReturn(SaveParamsets([c EXCEPT !.cache[a].kinds[k] = "empty"]), "None")
          [] OTHER -> FetchReturn(c, r)

FetchParamsetAnswer(c, r) ==
    LET a == c.f.address
        k == c.f.kind
    IN  CASE r \in Descriptions ->
                FetchReturn(SaveParamsets([c EXCEPT !.cache[a].kinds[k] = r]), "None")
          [] IsProxyException(r) -> FetchReturn(SaveParamsets(c), "None")
          [] OTHER -> FetchReturn(c, r)

\* The kinds of the allow-list, from position i on, that the device
\* description advertises (lines 373-375).
RECURSIVE Relevant(_, _)
Relevant(i, advertised) ==
    IF i > Len(RELEVANT_PARAMSETS) THEN <<>>
    ELSE IF RELEVANT_PARAMSETS[i] \in advertised
         THEN <<RELEVANT_PARAMSETS[i]>> \o Relevant(i + 1, advertised)
         ELSE Relevant(i + 1, advertised)

\* fetch_paramsets goes on with the next kind, or returns (lines 373-376).
FetchParamsetsLoop(c) ==
    IF c.f.todo = <<>>
    THEN FetchReturn(c, "None")
    ELSE Describe([c EXCEPT !.f.todo = Tail(@)], Head(c.f.todo))

\* fetch_paramsets refetching whatever the cache holds.
FetchParamsetsStart_Refetch(c, advertised) ==
    FetchParamsetsLoop([c EXCEPT !.f.advertised = advertised,
                                 !.cache[c.f.address] = EmptyEntry,
                                 !.f.todo = Relevant(1, advertised)])

\* fetch_paramsets up to its first await (lines 367-376).
FetchParamsetsStart(c, advertised) ==
    LET a == c.f.address
        c1 == [c EXCEPT !.f.advertised = advertised]
    IN  IF ~c.cache[a].present \/ c.f.update
        THEN FetchParamsetsLoop([c1 EXCEPT !.cache[a] = EmptyEntry,
                                           !.f.todo = Relevant(1, advertised)])
        ELSE FetchReturn(c1, "None")

\* fetch_paramsets from the end of a describe call (lines 376-386).
FetchParamsetsAnswer(c, r) ==
    LET a == c.f.address
        k == c.f.kind
    IN  CASE r \in Descriptions ->
                FetchParamsetsLoop([c EXCEPT !.cache[a].kinds[k] = r])
          [] IsProxyException(r) ->
                FetchParamsetsLoop([c EXCEPT !.cache[a].kinds[k] = "empty"])
          [] OTHER -> FetchReturn(c, r)

\* An operation that begins without an address of its own.
BatchMachine(op) ==
    [cache |-> paramsets_cache, saved |-> paramsets_saved,
     devices |-> devices_raw_dict,
     f |-> [IdleFetch EXCEPT !.op = op,
                             !.had = {a \in Addresses :
                                         paramsets_cache[a].present},
                             !.known = KnownAddresses(
                                           devices_raw_dict.devices)]]

\* self.central.devices_raw_dict[self.interface_id][address]
DescriptionOf(devices, address) ==
    devices[CHOOSE i \in DOMAIN devices : devices[i].address = address]

\* fetch_all_paramsets: the loop over the device descriptions and the
\* save after it (lines 396-403).  FetchAllResume goes on after the
\* fetch_paramsets of one description: with the next description when it
\* returned, and not at all when it raised.
\* fetch_all_paramsets passes over the address (lines 397-401).
SkipAddress(c, address) ==
    c.f.skip_existing /\ c.cache[address].present

RECURSIVE FetchAllLoop(_)
RECURSIVE FetchAllResume(_)
FetchAllLoop(c) ==
    IF c.f.pending = <<>>
    THEN FetchReturn(SaveParamsets(c), "None")
    ELSE LET dd == Head(c.f.pending)
             c1 == [c EXCEPT !.f.pending = Tail(@)]
         IN  IF SkipAddress(c, dd.address)
             THEN FetchAllLoop(c1)
             ELSE FetchAllResume(FetchParamsetsStart(
                      [c1 EXCEPT !.f.address = dd.address], dd.paramsets))

FetchAllResume_Stop(c) == c

FetchAllResume(c) ==
    IF c.f.pc = "done" /\ c.f.out = "None" THEN FetchAllLoop(c) ELSE c

\* fetch_all_paramsets up to its first await (lines 388-401).
FetchAllParamsetsStart(c, skip_existing) ==
    FetchAllLoop([c EXCEPT !.devices.present = TRUE,
                           !.f.skip_existing = skip_existing,
                           !.f.pending = c.devices.devices])

\* update_paramsets after its fetch_paramsets (line 424).
UpdateResume(c) ==
    IF c.f.pc = "done" /\ c.f.out = "None"
    THEN FetchReturn(SaveParamsets(c), "None")
    ELSE c

UpdateParamsetsStart_Fetch(c, address) ==
    UpdateResume(FetchParamsetsStart(
        [c EXCEPT !.f.address = address, !.f.update = TRUE], {"VALUES"}))

\* update_paramsets up to its first await (lines 405-423).
UpdateParamsetsStart(c, address) ==
    LET c1 == [c EXCEPT !.f.address = address, !.f.update = TRUE,
                        !.f.before = c.cache[address].kinds]
    IN  IF ~c.devices.present
        THEN FetchReturn(c1, "None")
        ELSE IF address \notin KnownAddresses(c.devices.devices)
        THEN FetchReturn(c1, "None")
        ELSE UpdateResume(FetchParamsetsStart(
                 c1, DescriptionOf(c.devices.devices, address).paramsets))

FetchIdle == fetch.pc \in {"idle", "done"}

CacheStore(c) ==
    /\ paramsets_cache' = c.cache
    /\ paramsets_saved' = c.saved
    /\ fetch' = c.f
    /\ devices_raw_dict' = c.devices
    /\ concurrent_fetch' = concurrent_fetch

\* The consumer calls fetch_paramset(address, kind, update).
FetchParamset(address, kind, update) ==
    /\ FetchIdle
    /\ CacheStore(FetchParamsetStart(
           CacheMachine("fetch_paramset", address, kind, update)))
    /\ UNCHANGED <<SessionVars, ProxyVars, ClientVars, CollectorVars, FlavorVars, ConnVars>>

\* The consumer calls fetch_paramsets(device_description, update), the
\* description being that of address and advertising the kinds advertised.
FetchParamsets(address, advertised, update) ==
    /\ FetchIdle
    /\ CacheStore(FetchParamsetsStart(
           CacheMachine("fetch_paramsets", address, "none", update),
           advertised))
    /\ UNCHANGED <<SessionVars, ProxyVars, ClientVars, CollectorVars, FlavorVars, ConnVars>>

\* The describe call the fetch operation awaits ends with r.
DescribeAnswer(r) ==
    /\ fetch.pc = "describe"
    /\ LET c == [cache |-> paramsets_cache, saved |-> paramsets_saved,
                 devices |-> devices_raw_dict,
                 f |-> [fetch EXCEPT !.answers[fetch.kind] = r]]
       IN  CacheStore(
               CASE fetch.op = "fetch_paramset" -> FetchParamsetAnswer(c, r)
                 [] fetch.op = "fetch_all_paramsets" ->
                        FetchAllResume(FetchParamsetsAnswer(c, r))
                 [] fetch.op = "update_paramsets" ->
                        UpdateResume(FetchParamsetsAnswer(c, r))
                 [] OTHER -> FetchParamsetsAnswer(c, r))
    /\ UNCHANGED <<SessionVars, ProxyVars, ClientVars, CollectorVars, FlavorVars, ConnVars>>

\* The consumer calls fetch_all_paramsets(skip_existing).
FetchAllParamsets(skip_existing) ==
    /\ FetchIdle
    /\ CacheStore(FetchAllParamsetsStart(
           BatchMachine("fetch_all_paramsets"), skip_existing))
    /\ UNCHANGED <<SessionVars, ProxyVars, ClientVars, CollectorVars, FlavorVars, ConnVars>>

\* The consumer calls update_paramsets(address).
UpdateParamsets(address) ==
    /\ FetchIdle
    /\ CacheStore(UpdateParamsetsStart(
           BatchMachine("update_paramsets"), address))
    /\ UNCHANGED <<SessionVars, ProxyVars, ClientVars, CollectorVars, FlavorVars, ConnVars>>

\* Between two operations the central unit learns of a device or channel
\* of the interface and adds its description to devices_raw_dict.
AddDeviceDescription(address, paramsets) ==
    /\ FetchIdle
    /\ address \notin KnownAddresses(devices_raw_dict.devices)
    /\ devices_raw_dict' =
           [present |-> TRUE,
            devices |-> Append(devices_raw_dict.devices,
                               [address |-> address, paramsets |-> paramsets])]
    /\ UNCHANGED <<paramsets_cache, paramsets_saved, fetch, concurrent_fetch>>
    /\ UNCHANGED <<SessionVars, ProxyVars, ClientVars, CollectorVars, FlavorVars, ConnVars>>

\* A second task of the event loop calls the fetch operations of the same
\* Client while the first may be suspended in a describe call.  Both work
\* on the one cache: what a task reads is what the cache holds when it
\* runs, and the entry it assigns a description to is the one the cache
\* holds when its await returns (the target of the assignment in lines
\* 377-379 is evaluated after the awaited call).

\* The second task's operation over the cache as it is now.
ConcurrentMachine_Unseen(op, address, update) ==
    [cache |-> [a \in Addresses |->
                   IF fetch.pc = "describe" /\ fetch.address = a
                   THEN NoEntry ELSE paramsets_cache[a]],
     saved |-> paramsets_saved, devices |-> devices_raw_dict,
     f |-> [IdleFetch EXCEPT !.op = op, !.address = address,
                             !.update = update,
                             !.had = {a \in Addresses :
                                         paramsets_cache[a].present},
                             !.known = KnownAddresses(
                                           devices_raw_dict.devices)]]

ConcurrentMachine(op, address, update) ==
    [cache |-> paramsets_cache, saved |-> paramsets_saved,
     devices |-> devices_raw_dict,
     f |-> [IdleFetch EXCEPT !.op = op, !.address = address,
                             !.update = update,
                             !.had = {a \in Addresses :
                                         paramsets_cache[a].present},
                             !.known = KnownAddresses(
                                           devices_raw_dict.devices)]]

ConcurrentStore(c) ==
    /\ paramsets_cache' = c.cache
    /\ paramsets_saved' = c.saved
    /\ concurrent_fetch' = c.f
    /\ devices_raw_dict' = c.devices
    /\ fetch' = fetch

\* The second task calls fetch_paramsets(device_description, update).
ConcurrentFetchParamsets(address, advertised, update) ==
    /\ concurrent_fetch.pc \in {"idle", "done"}
    /\ ConcurrentStore(FetchParamsetsStart(
           ConcurrentMachine("fetch_paramsets", address, update),
           advertised))
    /\ UNCHANGED <<SessionVars, ProxyVars, ClientVars, CollectorVars, FlavorVars, ConnVars>>

\* The second task calls fetch_all_paramsets(skip_existing).
ConcurrentFetchAllParamsets(skip_existing) ==
    /\ concurrent_fetch.pc \in {"idle", "done"}
    /\ ConcurrentStore(FetchAllParamsetsStart(
           ConcurrentMachine("fetch_all_paramsets", "none", FALSE),
           skip_existing))
    /\ UNCHANGED <<SessionVars, ProxyVars, ClientVars, CollectorVars, FlavorVars, ConnVars>>

\* The describe call the second task awaits ends with r.
ConcurrentDescribeAnswer(r) ==
    /\ concurrent_fetch.pc = "describe"
    /\ LET c == [cache |-> paramsets_cache, saved |-> paramsets_saved,
                 devices |-> devices_raw_dict,
                 f |-> [concurrent_fetch EXCEPT
                            !.answers[concurrent_fetch.kind] = r]]
       IN  ConcurrentStore(
               IF concurrent_fetch.op = "fetch_all_paramsets"
               THEN FetchAllResume(FetchParamsetsAnswer(c, r))
               ELSE FetchParamsetsAnswer(c, r))
    /\ UNCHANGED <<SessionVars, ProxyVars, ClientVars, CollectorVars, FlavorVars, ConnVars>>

(***************************************************************************)
(* Part 5: Call Parameter Collector                                        *)
(***************************************************************************)

MaxCollectors == 2      \* collectors alive at the same time
MaxAdds == 3            \* add_entity calls on one collector
MaxNest == 2            \* decorated calls nested in one another

Callers == {1, 2}       \* tasks that call decorated operations
Channels == {"VCU0000001:1", "VCU0000001:2"}
Parameters == {"LEVEL", "ON_TIME"}

\* What a write call of the client (set_value, put_paramset) returns.
WriteAnswers == {"True", "False"}

\* A collector that does not exist: none was created in this place yet, or
\* the wrapper that created it has returned and its caller calls again.
NoCollector ==
    [live |-> FALSE, _use_put_paramset |-> TRUE, _paramsets |-> <<>>,
     by |-> 0, adders |-> {}, added |-> 0, opted_out |-> {}, flushes |-> 0,
     pos |-> <<1, 1>>, sent |-> <<>>, out |-> "none"]

\* CallParameterCollector.__init__ (lines 574-578).  _paramsets is the dict
\* of dicts in the order of its keys: per channel the parameters written.
\* The values are left out: no decision of the collector reads them.
\* The other fields are the collector's history: the caller whose wrapper
\* created it, the callers that added to it, the number of add_entity
\* calls, the channels a write that opted out of put_paramset went to, the
\* send_data calls on it, the position of the send_data loop, the write
\* calls send_data issued and what send_data returned.
NewCollector(t) == [NoCollector EXCEPT !.live = TRUE, !.by = t]

HasChannel(paramsets, channel) ==
    \E i \in DOMAIN paramsets : paramsets[i].channel_address = channel

ChannelIndex(paramsets, channel) ==
    CHOOSE i \in DOMAIN paramsets : paramsets[i].channel_address = channel

\* CallParameterCollector.add_entity (lines 580-588), called by t.
AddEntity(col, t, channel, parameter, use_put_paramset) ==
    LET ps == IF HasChannel(col._paramsets, channel)
              THEN col._paramsets
              ELSE Append(col._paramsets,
                          [channel_address |-> channel, parameters |-> <<>>])
        i == ChannelIndex(ps, channel)
        pr == ps[i].parameters
        pr1 == IF \E j \in DOMAIN pr : pr[j] = parameter
               THEN pr ELSE Append(pr, parameter)
    IN  [col EXCEPT
            !._use_put_paramset = IF use_put_paramset = FALSE THEN FALSE ELSE @,
            !._paramsets = [ps EXCEPT ![i].parameters = pr1],
            !.adders = @ \cup {t},
            !.added = @ + 1,
            !.opted_out = IF use_put_paramset THEN @ ELSE @ \cup {channel}]

\* A decorated call: frames are the decorated calls in progress, outermost
\* first, each with the collector it works on and whether its wrapper
\* created it; flushing is the collector whose send_data is in progress.
IdleOp == [pc |-> "idle", frames |-> <<>>, out |-> "none", flushing |-> 0]

\* The part of the state one caller's step reads and writes.
CollectorMachine(t) == [cs |-> collectors, op |-> decorated[t], t |-> t]

OpReturn(b, v) == [b EXCEPT !.op.pc = "done", !.op.frames = <<>>, !.op.out = v]

\* send_data awaits a write call of the client (lines 594-605).
IssueWrite(b, c, call, channel, parameters) ==
    [b EXCEPT !.op.pc = "send_data",
              !.op.flushing = c,
              !.cs[c].sent = Append(@, [call |-> call, by |-> b.t,
                                       channel_address |-> channel,
                                       parameters |-> parameters,
                                       answer |-> "pending"])]

\* The channel is written parameter by parameter (line 592).
SingleWrites(col, paramset) ==
    Len(paramset.parameters) = 1 \/ col._use_put_paramset = FALSE

\* send_data returns v to wrapper_collector, which drops it and returns
\* what the operation body returned (decorators.py lines 122-124).
SendDataReturn(b, c, v) ==
    LET b1 == [b EXCEPT !.cs[c].out = v, !.op.flushing = 0,
                        !.op.frames = SubSeq(@, 1, Len(@) - 1)]
    IN  IF b1.op.frames = <<>>
        THEN OpReturn(b1, "None")
        ELSE [b1 EXCEPT !.op.pc = "body"]

\* send_data at the position of its loops (lines 591-606).
SendDataLoop(b, c) ==
    LET col == b.cs[c]
        i == col.pos[1]
        j == col.pos[2]
    IN  IF i > Len(col._paramsets)
        THEN SendDataReturn(b, c, "True")
        ELSE LET paramset == col._paramsets[i]
             IN  IF SingleWrites(col, paramset)
                 THEN IssueWrite(b, c, "set_value", paramset.channel_address,
                                 <<paramset.parameters[j]>>)
                 ELSE IssueWrite(b, c, "put_paramset",
                                 paramset.channel_address, paramset.parameters)

\* send_data goes on after a write call (lines 591-593).
SendDataAdvance(b, c) ==
    LET col == b.cs[c]
        i == col.pos[1]
        j == col.pos[2]
        single == col.sent[Len(col.sent)].call = "set_value"
    IN  IF single /\ j < Len(col._paramsets[i].parameters)
        THEN SendDataLoop([b EXCEPT !.cs[c].pos = <<i, j + 1>>], c)
        ELSE SendDataLoop([b EXCEPT !.cs[c].pos = <<i + 1, 1>>], c)

SendDataAnswer_KeepGoing(b, c, a) ==
    SendDataAdvance([b EXCEPT !.cs[c].sent[Len(b.cs[c].sent)].answer = a], c)

\* send_data from the end of a write call (lines 594-606).
SendDataAnswer(b, c, a) ==
    LET b1 == [b EXCEPT !.cs[c].sent[Len(b.cs[c].sent)].answer = a]
    IN  IF a = "False"
        THEN SendDataReturn(b1, c, "False")
        ELSE SendDataAdvance(b1, c)

\* The place of a collector that does not exist.
FreeCollector(cs) == CHOOSE c \in DOMAIN cs : ~cs[c].live

WrapperCollector_AlwaysNew(b, how, arg) ==
    LET c == FreeCollector(b.cs)
    IN  [b EXCEPT !.cs[c] = NewCollector(b.t),
                  !.op.pc = "body",
                  !.op.frames = Append(@, [owner |-> TRUE, collector |-> c])]

\* wrapper_collector up to the call of the operation body (lines 112-121).
\* how is the way the caller gives the collector argument ("omitted",
\* "keyword" or "positional"), arg the collector given (0 for None).
WrapperCollector(b, how, arg) ==
    LET collector_exists == how # "omitted" /\ arg # 0
        c == FreeCollector(b.cs)
    IN  IF collector_exists
        THEN [b EXCEPT !.op.pc = "body",
                       !.op.frames = Append(@, [owner |-> FALSE,
                                                collector |-> arg])]
        ELSE LET b1 == [b EXCEPT !.cs[c] = NewCollector(b.t)]
             IN  IF how = "positional"
                 THEN OpReturn(b1, "TypeError")
                 ELSE [b1 EXCEPT !.op.pc = "body",
                                 !.op.frames = Append(@, [owner |-> TRUE,
                                                          collector |-> c])]

\* wrapper_collector from the return of the operation body (lines 118-124).
WrapperReturn(b) ==
    LET frame == b.op.frames[Len(b.op.frames)]
        b1 == [b EXCEPT !.op.frames = SubSeq(@, 1, Len(@) - 1)]
    IN  IF frame.owner
        THEN SendDataLoop([b EXCEPT !.cs[frame.collector].flushes = @ + 1],
                          frame.collector)
        ELSE IF b1.op.frames = <<>> THEN OpReturn(b1, "None") ELSE b1

CollectorStore(b) ==
    /\ collectors' = b.cs
    /\ decorated' = [decorated EXCEPT ![b.t] = b.op]

\* A caller calls a decorated operation (BaseHmLight.turn_on) and gives no
\* collector.  The collectors of its previous call are gone.
CallOperation(t, how) ==
    /\ decorated[t].pc \in {"idle", "done"}
    /\ LET cs == [c \in DOMAIN collectors |->
                     IF collectors[c].by = t THEN NoCollector
                     ELSE collectors[c]]
       IN  CollectorStore(WrapperCollector(
               [cs |-> cs, op |-> IdleOp, t |-> t], how, 0))
    /\ UNCHANGED <<SessionVars, ProxyVars, ClientVars, CacheVars, FlavorVars, ConnVars>>

\* The body calls a decorated operation and passes its collector on
\* (light.py line 210).
CallNested(t) ==
    /\ decorated[t].pc = "body"
    /\ Len(decorated[t].frames) < MaxNest
    /\ \E c \in DOMAIN collectors : ~collectors[c].live
    /\ CollectorStore(WrapperCollector(
           CollectorMachine(t), "keyword",
           decorated[t].frames[Len(decorated[t].frames)].collector))
    /\ UNCHANGED <<SessionVars, ProxyVars, ClientVars, CacheVars, FlavorVars, ConnVars>>

\* The body sends a value with its collector (light.py line 216): the
\* entity adds itself to the collector.
SendValue(t, channel, parameter, use_put_paramset) ==
    /\ decorated[t].pc = "body"
    /\ LET c == decorated[t].frames[Len(decorated[t].frames)].collector
       IN  /\ collectors[c].added < MaxAdds
           /\ collectors' = [collectors EXCEPT
                  ![c] = AddEntity(@, t, channel, parameter, use_put_paramset)]
    /\ UNCHANGED decorated
    /\ UNCHANGED <<SessionVars, ProxyVars, ClientVars, CacheVars, FlavorVars, ConnVars>>

\* The body of the innermost decorated call returns.
BodyReturn(t) ==
    /\ decorated[t].pc = "body"
    /\ CollectorStore(WrapperReturn(CollectorMachine(t)))
    /\ UNCHANGED <<SessionVars, ProxyVars, ClientVars, CacheVars, FlavorVars, ConnVars>>

\* The body raises: the exception passes through every wrapper.
BodyRaise(t) ==
    /\ decorated[t].pc = "body"
    /\ CollectorStore(OpReturn(CollectorMachine(t), "Exception"))
    /\ UNCHANGED <<SessionVars, ProxyVars, ClientVars, CacheVars, FlavorVars, ConnVars>>

\* The write call send_data awaits returns a.
WriteAnswer(t, a) ==
    /\ decorated[t].pc = "send_data"
    /\ CollectorStore(SendDataAnswer(CollectorMachine(t),
                                     decorated[t].flushing, a))
    /\ UNCHANGED <<SessionVars, ProxyVars, ClientVars, CacheVars, FlavorVars, ConnVars>>

(***************************************************************************)
(* Part 6: Client flavors                                                  *)
(***************************************************************************)

\* Strings the code looks into are sequences of characters.
Homegear == <<"H", "o", "m", "e", "g", "e", "a", "r">>
pydevccu == <<"p", "y", "d", "e", "v", "c", "c", "u">>

\* What proxy.getVersion() returns: "3.61.7", "Homegear 0.8",
\* "pydevccu 2.1", "homegear 0.8", "2.0-Homegear" and "".
Versions ==
    {<<"3", ".", "6", "1", ".", "7">>,
     Homegear \o <<" ", "0", ".", "8">>,
     pydevccu \o <<" ", "2", ".", "1">>,
     <<"h", "o", "m", "e", "g", "e", "a", "r", " ", "0", ".", "8">>,
     <<"2", ".", "0", "-">> \o Homegear,
     <<>>}

\* Python's  marker in s  for strings.
Contains(marker, s) ==
    \E i \in 0..(Len(s) - Len(marker)) :
        SubSeq(s, i + 1, i + Len(marker)) = marker

ClientFor_AlwaysCCU(v) == "ClientCCU"

\* ClientFactory.get_client from the answer of getVersion (lines 751-754).
ClientFor(v) ==
    IF Contains(Homegear, v) \/ Contains(pydevccu, v)
    THEN "ClientHomegear"
    ELSE "ClientCCU"

\* re.findall("<.*?>|&([a-z0-9]+|#[0-9]{1,6}|#x[0-9a-f]{1,6});", value)
\* finds something (json_rpc_client.py line 398).
FindsMarkup(s) ==
    LET Digits == {"0", "1", "2", "3", "4", "5", "6", "7", "8", "9"}
        HexDigits == Digits \cup {"a", "b", "c", "d", "e", "f"}
        LowerAlnum ==
            Digits \cup
            {"a", "b", "c", "d", "e", "f", "g", "h", "i", "j", "k", "l", "m",
             "n", "o", "p", "q", "r", "s", "t", "u", "v", "w", "x", "y", "z"}
        AllIn(t, chars) == \A i \in DOMAIN t : t[i] \in chars
    IN  \/ \E i, j \in DOMAIN s : i < j /\ s[i] = "<" /\ s[j] = ">"
        \/ \E i, k \in DOMAIN s :
              /\ i < k /\ s[i] = "&" /\ s[k] = ";"
              /\ LET body == SubSeq(s, i + 1, k - 1)
                     n == Len(body)
                 IN  \/ n >= 1 /\ AllIn(body, LowerAlnum)
                     \/ /\ n >= 2 /\ n <= 7 /\ body[1] = "#"
                        /\ AllIn(SubSeq(body, 2, n), Digits)
                     \/ /\ n >= 3 /\ n <= 8 /\ body[1] = "#" /\ body[2] = "x"
                        /\ AllIn(SubSeq(body, 3, n), HexDigits)

\* Values a consumer sets a system variable to, each with its Python type
\* and its text: True, False, 3, 1.5 and the strings "on", "<b>", "a<b",
\* "&amp;", "&#38;", "R&D;" and "r&d".
SysvarValues ==
    {[type |-> "bool", v |-> <<"T", "r", "u", "e">>],
     [type |-> "bool", v |-> <<"F", "a", "l", "s", "e">>],
     [type |-> "int", v |-> <<"3">>],
     [type |-> "float", v |-> <<"1", ".", "5">>],
     [type |-> "str", v |-> <<"o", "n">>],
     [type |-> "str", v |-> <<"<", "b", ">">>],
     [type |-> "str", v |-> <<"a", "<", "b">>],
     [type |-> "str", v |-> <<"&", "a", "m", "p", ";">>],
     [type |-> "str", v |-> <<"&", "#", "3", "8", ";">>],
     [type |-> "str", v |-> <<"R", "&", "D", ";">>],
     [type |-> "str", v |-> <<"r", "&", "d">>]}

\* int(value) of a bool.
BoolToInt(value) ==
    [type |-> "int",
     v |-> IF value.v = <<"T", "r", "u", "e">> THEN <<"1">> ELSE <<"0">>]

NoValue == [type |-> "none", v |-> <<>>]

\* JsonRpcAioHttpClient.set_system_variable (json_rpc_client.py lines
\* 389-409): the request it sends for a value, or "rejected".
SetSystemVariableRequest(value) ==
    CASE value.type = "bool" ->
            [method |-> "SysVar.setBool", value |-> BoolToInt(value)]
      [] value.type = "str" ->
            IF FindsMarkup(value.v)
            THEN [method |-> "rejected", value |-> NoValue]
            ELSE [method |-> "set_system_variable.fn", value |-> value]
      [] OTHER -> [method |-> "SysVar.setFloat", value |-> value]

\* ClientCCU.set_system_variable (client.py lines 503-517): the request it
\* posts for a value.
ClientCCU_SetRequest(value) ==
    IF value.type = "bool"
    THEN [method |-> "SysVar.setBool", value |-> BoolToInt(value)]
    ELSE [method |-> "SysVar.setFloat", value |-> value]

\* The system-variable operations, the JSON-RPC method and the legacy
\* method of each.
SysvarOps == {"set_system_variable", "delete_system_variable",
              "get_system_variable", "get_all_system_variables"}

JsonMethod(op) ==
    CASE op = "delete_system_variable" -> "SysVar.deleteSysVarByName"
      [] op = "get_system_variable" -> "SysVar.getValueByName"
      [] OTHER -> "SysVar.getAll"

LegacyMethod(op) ==
    CASE op = "set_system_variable" -> <<"setSystemVariable">>
      [] op = "delete_system_variable" -> <<"deleteSystemVariable">>
      [] op = "get_system_variable" -> <<"getSystemVariable">>
      [] OTHER -> <<"getAllSystemVariables">>

\* An operation of the resolved client: the JSON-RPC requests and the
\* legacy calls it issued, the addresses fetch_names goes through and
\* those it has still to go through.
IdleSysvar == [op |-> "none", pc |-> "idle", out |-> "none",
               value |-> NoValue, json |-> <<>>, legacy |-> <<>>,
               addresses |-> <<>>, todo |-> <<>>]

\* The JSON-RPC requests of login_or_renew.
LoginOrRenew == [method |-> "login_or_renew", value |-> NoValue]

UseJsonRpc_Always(u, p) == TRUE

\* self.username and self.password (line 499), as Client.__init__ set them
\* (lines 74-78) from the configured username and password; Truthy is
\* Python's truth value of each.
UseJsonRpc(u, p) ==
    LET client_username == IF p = PyNone THEN PyNone ELSE u
        Truthy(x) == x # PyNone /\ x # ""
    IN  Truthy(client_username) /\ Truthy(p)

SysvarReturn(s, v) == [s EXCEPT !.pc = "done", !.out = v]

\* A system-variable operation up to its first await: ClientCCU (lines
\* 497-615) or ClientHomegear (lines 658-684).
SysvarStart_LikeCCU(s, cls) ==
    IF UseJsonRpc(username, password)
    THEN [s EXCEPT !.pc = "login", !.json = <<LoginOrRenew>>]
    ELSE [s EXCEPT !.pc = "legacy", !.legacy = <<LegacyMethod(s.op)>>]

SysvarStart(s, cls) ==
    IF cls = "ClientCCU" /\ UseJsonRpc(username, password)
    THEN [s EXCEPT !.pc = "login", !.json = <<LoginOrRenew>>]
    ELSE [s EXCEPT !.pc = "legacy", !.legacy = <<LegacyMethod(s.op)>>]

\* ClientCCU: login_or_renew returned a ("raise": it raised); the request
\* follows (lines 501-517, 543-550, 567-574, 597-602).
SysvarLogin(s, a) ==
    CASE a = "true" ->
            [s EXCEPT !.pc = "post",
                      !.json = Append(@,
                          IF s.op = "set_system_variable"
                          THEN ClientCCU_SetRequest(s.value)
                          ELSE [method |-> JsonMethod(s.op), value |-> NoValue])]
      [] a = "false" -> SysvarReturn(s, "None")
      [] OTHER -> SysvarReturn(s, "ClientException")

\* ClientCCU: the post call ended; except Exception takes what it raises.
SysvarPost(s, a) ==
    IF a = "ok" /\ s.op \in {"get_system_variable", "get_all_system_variables"}
    THEN SysvarReturn(s, "result")
    ELSE SysvarReturn(s, "None")

\* ClientHomegear.fetch_names goes on with the next address (lines 634-640).
FetchNamesLoop(s) ==
    IF s.todo = <<>>
    THEN SysvarReturn(s, "None")
    ELSE [s EXCEPT !.pc = "legacy", !.todo = Tail(@),
                   !.legacy = Append(@, <<"getMetadata", Head(s.todo)>>)]

\* A legacy call of the operation ended with a.
SysvarLegacy(s, a) ==
    CASE s.op = "fetch_names" /\ (a = "ok" \/ IsProxyException(a)) ->
            FetchNamesLoop(s)
      [] a = "ok" -> SysvarReturn(s, "result")
      [] IsProxyException(a) -> SysvarReturn(s, "None")
      [] OTHER -> SysvarReturn(s, a)

SysvarIdle == sysvar.pc \in {"idle", "done"}

\* ClientFactory.get_client awaits proxy.getVersion() (lines 728-747).
GetClient ==
    /\ flavor = "none"
    /\ SysvarIdle
    /\ sysvar' = [IdleSysvar EXCEPT !.op = "get_client", !.pc = "version",
                                    !.legacy = <<<<"getVersion">>>>]
    /\ UNCHANGED <<flavor, version, central>>
    /\ UNCHANGED <<SessionVars, ProxyVars, ClientVars, CacheVars, CollectorVars, ConnVars>>

\* Client.__init__ enters the client in the registries of the central
\* unit, by its interface_id and under its init_url (lines 115-118).
NoClients == [clients |-> {}, clients_by_init_url |-> <<>>]

Register(c, interface_id) ==
    [clients |-> c.clients \cup {interface_id},
     clients_by_init_url |-> Append(c.clients_by_init_url, interface_id)]

\* getVersion returned a version: the client is created (lines 752-754).
VersionAnswer(v) ==
    /\ sysvar.pc = "version"
    /\ flavor' = ClientFor(v)
    /\ version' = v
    /\ central' = Register(central, "central-hmip")
    /\ sysvar' = SysvarReturn(sysvar, ClientFor(v))
    /\ UNCHANGED <<SessionVars, ProxyVars, ClientVars, CacheVars, CollectorVars, ConnVars>>

\* getVersion raised e and the query is made again, once.
VersionRaised_Retry(e) ==
    /\ sysvar.pc = "version"
    /\ sysvar' = IF Len(sysvar.legacy) < 2
                 THEN [sysvar EXCEPT !.legacy = Append(@, <<"getVersion">>)]
                 ELSE SysvarReturn(sysvar, e)
    /\ UNCHANGED <<flavor, version, central>>
    /\ UNCHANGED <<SessionVars, ProxyVars, ClientVars, CacheVars, CollectorVars, ConnVars>>

\* getVersion raised e (lines 747-751).
VersionRaised(e) ==
    /\ sysvar.pc = "version"
    /\ sysvar' = SysvarReturn(sysvar, e)
    /\ UNCHANGED <<flavor, version, central>>
    /\ UNCHANGED <<SessionVars, ProxyVars, ClientVars, CacheVars, CollectorVars, ConnVars>>

\* The consumer calls a system-variable operation of the client.
SysvarOperation(op, value) ==
    /\ flavor # "none"
    /\ SysvarIdle /\ ClientIdle
    /\ (op = "set_system_variable") = (value.type # "none")
    /\ sysvar' = SysvarStart([IdleSysvar EXCEPT !.op = op, !.value = value],
                             flavor)
    /\ UNCHANGED <<flavor, version, central>>
    /\ UNCHANGED <<SessionVars, ProxyVars, ClientVars, CacheVars, CollectorVars, ConnVars>>

\* login_or_renew of the operation ended; when it returned true the
\* session manager holds a token.
LoginAnswer(a) ==
    /\ sysvar.pc = "login"
    /\ sysvar' = SysvarLogin(sysvar, a)
    /\ IF a = "true" /\ session_id = NoSession
       THEN /\ issued < MaxTokens
            /\ session_id' = issued + 1
            /\ last_session_id_refresh' = now
            /\ token_refreshed' = now
            /\ backend_live' = backend_live \cup {issued + 1}
            /\ issued' = issued + 1
            /\ UNCHANGED <<username, password, now, task>>
       ELSE UNCHANGED SessionVars
    /\ UNCHANGED <<flavor, version, central>>
    /\ UNCHANGED <<ProxyVars, ClientVars, CacheVars, CollectorVars, ConnVars>>

\* The post call of the operation ended.
PostAnswer(a) ==
    /\ sysvar.pc = "post"
    /\ sysvar' = SysvarPost(sysvar, a)
    /\ UNCHANGED <<flavor, version, central>>
    /\ UNCHANGED <<SessionVars, ProxyVars, ClientVars, CacheVars, CollectorVars, ConnVars>>

\* The legacy call of the operation ended.
SysvarLegacyAnswer(a) ==
    /\ sysvar.pc = "legacy"
    /\ sysvar' = SysvarLegacy(sysvar, a)
    /\ UNCHANGED <<flavor, version, central>>
    /\ UNCHANGED <<SessionVars, ProxyVars, ClientVars, CacheVars, CollectorVars, ConnVars>>

\* The consumer calls fetch_names of a ClientHomegear (lines 629-640).
FetchNames ==
    /\ flavor = "ClientHomegear"
    /\ SysvarIdle /\ ClientIdle
    /\ sysvar' =
          IF ~devices_raw_dict.present
          THEN SysvarReturn([IdleSysvar EXCEPT !.op = "fetch_names"], "KeyError")
          ELSE LET keys == [i \in DOMAIN devices_raw_dict.devices |->
                               devices_raw_dict.devices[i].address]
               IN  FetchNamesLoop([IdleSysvar EXCEPT !.op = "fetch_names",
                                                     !.addresses = keys,
                                                     !.todo = keys])
    /\ UNCHANGED <<flavor, version, central>>
    /\ UNCHANGED <<SessionVars, ProxyVars, ClientVars, CacheVars, CollectorVars, ConnVars>>

\* The consumer calls get_virtual_remote (lines 617-623, 686-688); found
\* tells whether central.hm_devices holds a virtual remote of the interface.
GetVirtualRemote(found) ==
    /\ flavor # "none"
    /\ SysvarIdle /\ ClientIdle
    /\ sysvar' = SysvarReturn([IdleSysvar EXCEPT !.op = "get_virtual_remote"],
                              IF flavor = "ClientCCU" /\ found
                              THEN "virtual_remote" ELSE "None")
    /\ UNCHANGED <<flavor, version, central>>
    /\ UNCHANGED <<SessionVars, ProxyVars, ClientVars, CacheVars, CollectorVars, ConnVars>>

(***************************************************************************)
(* Part 7: Two Connections                                                 *)
(***************************************************************************)

\* Client.__init__ line 68: interface_id is the central unit's
\* instance_name and the name of the Connection.
InterfaceId_OneName(c) == "central-hmip"

InterfaceId(c) == IF c = 1 THEN "central-hmip" ELSE "central-rf"

\* What a Client and its JsonRpcAioHttpClient hold after construction
\* (client.py lines 104-113, json_rpc_client.py lines 89-90), with the
\* operations of the consumer in progress.
NewConnection ==
    [session_id |-> NoSession, last_session_id_refresh |-> NoRefresh,
     token_refreshed |-> NoRefresh, task |-> IdleTask,
     time_initialized |-> 0, client |-> IdleClient, fetch |-> IdleFetch]

\* The consumer of a Connection calls one operation at a time.
ConnIdle(c) ==
    /\ conn[c].task.st # "wait"
    /\ conn[c].client.pc \in {"idle", "done"}
    /\ conn[c].fetch.pc \in {"idle", "done"}

\* The session manager of Connection c with a call tk in progress.
SessionOf(c, tk) ==
    [sid |-> conn[c].session_id, stamp |-> conn[c].last_session_id_refresh,
     tref |-> conn[c].token_refreshed, tk |-> tk]

\* The Client of Connection c with its operation cl in progress.
ClientOf(c, cl) == [ti |-> conn[c].time_initialized, cl |-> cl]

\* The attributes of Connection c after a step of its session manager (m)
\* and of its Client (k); an operation that has returned is forgotten.
ConnStore(c, m, k) ==
    conn' = [conn EXCEPT
                ![c].session_id = m.sid,
                ![c].last_session_id_refresh = m.stamp,
                ![c].token_refreshed = m.tref,
                ![c].task = IF m.tk.st = "wait" THEN m.tk ELSE IdleTask,
                ![c].time_initialized = k.ti,
                ![c].client = IF k.cl.pc = "done" THEN IdleClient ELSE k.cl]

\* A legacy RPC call of Connection c goes to the executor of its Client.
SubmitWhen(c, awaits) ==
    IF awaits
    THEN submitted[c] < MaxCalls /\ AddProxyExecutorJob(c)
    ELSE UNCHANGED ProxyVars

\* The consumer of Connection c calls _post(method) of its session manager.
ConnPost(c) ==
    /\ ConnIdle(c)
    /\ ConnStore(c, StartPost(SessionOf(c, [IdleTask EXCEPT !.op = "post"])),
                 ClientOf(c, conn[c].client))
    /\ UNCHANGED <<interface_caches, SessionVars, ProxyVars, ClientVars, CacheVars,
                   CollectorVars, FlavorVars>>

\* The consumer of Connection c calls logout() of its session manager.
ConnLogout(c) ==
    /\ ConnIdle(c)
    /\ ConnStore(c, StartLogout(SessionOf(c, [IdleTask EXCEPT !.op = "logout"])),
                 ClientOf(c, conn[c].client))
    /\ UNCHANGED <<interface_caches, SessionVars, ProxyVars, ClientVars, CacheVars,
                   CollectorVars, FlavorVars>>

\* The backend answers the request the session manager of Connection c
\* awaits; a proxy_de_init that awaited the logout goes on (client.py
\* lines 167-180).
ConnRespond(c, r) ==
    /\ conn[c].task.st = "wait"
    /\ LET m == SessionOf(c, conn[c].task)
           f == Top(m)
           m1 == Answer(m, r, issued + 1)
           k == ClientOf(c, conn[c].client)
           k1 == IF k.cl.pc = "logout" /\ m1.tk.st = "done"
                 THEN IF m1.tk.out = "ok"
                      THEN DeInitDecide(k)
                      ELSE DeInitRaise(k, m1.tk.out)
                 ELSE k
       IN  /\ CanAnswer(f, Len(conn[c].task.stack), r)
           /\ backend_live' = BackendLive(f, r)
           /\ issued' = IF r = "ok" /\ f.ctx \in LoginCtx THEN issued + 1 ELSE issued
           /\ ConnStore(c, m1, k1)
           /\ SubmitWhen(c, k1.cl.pc = "de_init")
    /\ UNCHANGED <<username, password, session_id, last_session_id_refresh,
                   now, token_refreshed, task>>
    /\ UNCHANGED <<interface_caches, ClientVars, CacheVars, CollectorVars, FlavorVars>>

\* The consumer of Connection c calls proxy_init(), is_connected() or
\* proxy_de_init().
ConnClientOperation(c, op) ==
    /\ ConnIdle(c)
    /\ LET k == ClientOf(c, [IdleClient EXCEPT !.op = op])
           logs_out == op = "proxy_de_init" /\ conn[c].session_id # NoSession
           m == IF logs_out
                THEN StartLogout(SessionOf(c, [IdleTask EXCEPT !.op = "logout"]))
                ELSE SessionOf(c, conn[c].task)
           k1 == CASE op = "proxy_init" -> InitStart(k)
                   [] op = "is_connected" ->
                          LegacyCall(k, "proxy.ping(interface_id)", "ping")
                   [] logs_out -> [k EXCEPT !.cl.pc = "logout",
                                            !.cl.calls = <<"logout">>]
                   [] OTHER -> DeInitDecide(k)
       IN  /\ ConnStore(c, m, k1)
           /\ SubmitWhen(c, k1.cl.pc \in {"init", "ping", "de_init"})
    /\ UNCHANGED <<interface_caches, SessionVars, ClientVars, CacheVars,
                   CollectorVars, FlavorVars>>

\* The Cache part of Connection c: its entries are
\* central.paramsets_cache[interface_id].
CacheOf(c, f) ==
    [cache |-> interface_caches[InterfaceId(c)],
     saved |-> interface_caches[InterfaceId(c)],
     devices |-> NoDevices, f |-> f]

CacheOfStore(c, cm) ==
    /\ interface_caches' = [interface_caches EXCEPT ![InterfaceId(c)] = cm.cache]
    /\ conn' = [conn EXCEPT ![c].fetch = IF cm.f.pc = "done" THEN IdleFetch
                                         ELSE cm.f]

\* The consumer of Connection c calls fetch_paramset(address, kind, update).
ConnFetchParamset(c, address, kind, update) ==
    /\ ConnIdle(c)
    /\ LET cm == FetchParamsetStart(
                     CacheOf(c, [IdleFetch EXCEPT !.op = "fetch_paramset",
                                                  !.address = address,
                                                  !.kind = kind,
                                                  !.update = update]))
       IN  /\ CacheOfStore(c, cm)
           /\ SubmitWhen(c, cm.f.pc = "describe")
    /\ UNCHANGED <<SessionVars, ClientVars, CacheVars, CollectorVars, FlavorVars>>

\* The worker of Connection c ends the legacy RPC call its consumer awaits:
\* with a, or with NoConnection when the transport raised it.
ConnLegacyAnswer(c, a) ==
    /\ conn[c].client.pc \in {"init", "de_init", "ping"}
       \/ conn[c].fetch.pc = "describe"
    /\ WorkerFinish(c)
    /\ LET raised == executor'[c].no_connection # executor[c].no_connection
           e == IF raised THEN "NoConnection" ELSE a
           k == ClientOf(c, conn[c].client)
       IN  IF conn[c].fetch.pc = "describe"
           THEN CacheOfStore(c, FetchParamsetAnswer(
                                    CacheOf(c, conn[c].fetch),
                                    IF e = "ok" THEN "d1" ELSE e))
           ELSE /\ ConnStore(c, SessionOf(c, conn[c].task),
                        CASE k.cl.pc = "init" -> InitAnswer(k, e)
                          [] k.cl.pc = "de_init" -> DeInitAnswer(k, e)
                          [] OTHER -> IsConnectedAnswer(k, e))
                /\ UNCHANGED interface_caches
    /\ UNCHANGED <<SessionVars, ClientVars, CacheVars, CollectorVars, FlavorVars>>

(***************************************************************************)
(* Specifications                                                          *)
(***************************************************************************)
Init ==
    /\ work_queue = [c \in Connections |-> <<>>]
    /\ running = [c \in Connections |-> {}]
    /\ started = [c \in Connections |-> <<>>]
    /\ finished = [c \in Connections |-> {}]
    /\ submitted = [c \in Connections |-> 0]
    /\ executor = [c \in Connections |-> NewExecutor]
    /\ username \in CredValues
    /\ password \in CredValues
    /\ session_id = NoSession
    /\ last_session_id_refresh = NoRefresh
    /\ now = 0
    /\ token_refreshed = NoRefresh
    /\ backend_live = {}
    /\ issued = 0
    /\ task = [t \in Tasks |-> IdleTask]
    /\ connect \in BOOLEAN
    /\ time_initialized = 0
    /\ client = IdleClient
    /\ paramsets_cache = [a \in Addresses |-> NoEntry]
    /\ paramsets_saved = [a \in Addresses |-> NoEntry]
    /\ fetch = IdleFetch
    /\ devices_raw_dict = NoDevices
    /\ concurrent_fetch = IdleFetch
    /\ collectors = [c \in 1..MaxCollectors |-> NoCollector]
    /\ decorated = [t \in Callers |-> IdleOp]
    /\ flavor = "none"
    /\ version = <<>>
    /\ sysvar = IdleSysvar
    /\ central = NoClients
    /\ conn = [c \in Connections |-> NewConnection]
    /\ interface_caches = [i \in {InterfaceId(c) : c \in Connections} |->
                              [a \in Addresses |-> NoEntry]]

NextProxy ==
    \/ \E c \in Connections : AddProxyExecutorJob(c) /\ UNCHANGED <<SessionVars, ClientVars, CacheVars, CollectorVars, FlavorVars, ConnVars>>
    \/ \E c \in Connections : WorkerStart(c) /\ UNCHANGED <<SessionVars, ClientVars, CacheVars, CollectorVars, FlavorVars, ConnVars>>
    \/ \E c \in Connections : WorkerFinish(c) /\ UNCHANGED <<SessionVars, ClientVars, CacheVars, CollectorVars, FlavorVars, ConnVars>>

SpecProxy == Init /\ [][NextProxy]_vars

\* The same bridges, each shut down at some time.
NextStop ==
    \/ NextProxy
    \/ \E c \in Connections : Stop(c) /\ UNCHANGED <<SessionVars, ClientVars, CacheVars, CollectorVars, FlavorVars, ConnVars>>

SpecStop == Init /\ [][NextStop]_vars

\* The consumer makes its calls one after the other: one task.
NextSession ==
    \/ Post(1)
    \/ PostOneShot(1)
    \/ Logout(1)
    \/ \E r \in Responses : Respond(1, r)
    \/ \E d \in ClockSteps : Tick(d)

\* The manager was constructed with a username and a password.
InitSession ==
    /\ Init
    /\ username = "admin"
    /\ password = "admin"
    /\ connect = TRUE

SpecSession == InitSession /\ [][NextSession]_vars

\* The same calls, for every way the credentials may be given or missing.
SpecCredentials == Init /\ [][NextSession]_vars

\* Consumer tasks call concurrently: every interleaving at the awaits.
\* One answer of each kind that the code handles differently, and the
\* clock within one day.
ConcurrentResponses == {"ok", "null", "denied", "error", "refused"}

NextConcurrent ==
    \/ \E t \in Tasks : Post(t)
    \/ \E t \in Tasks : PostOneShot(t)
    \/ \E t \in Tasks : Logout(t)
    \/ \E t \in Tasks : \E r \in ConcurrentResponses : Respond(t, r)
    \/ \E d \in ClockSteps \ {SecondsPerDay} : Tick(d)

SpecConcurrent == InitSession /\ [][NextConcurrent]_vars

\* One Client with credentials, connecting or not: its lifecycle
\* operations one after the other, the answers of the backend, the clock
\* within one day.
InitClient ==
    /\ Init
    /\ username = "admin"
    /\ password = "admin"

NextClient ==
    \/ GetServiceMessages
    \/ ProxyInit
    \/ ProxyDeInit("proxy_de_init")
    \/ ProxyDeInit("proxy_re_init")
    \/ LogoutReturned
    \/ IsConnected
    \/ \E a \in LegacyAnswers : LegacyAnswer(a)
    \/ SessionLogin
    \/ \E r \in Responses : Respond(1, r)
    \/ \E d \in ClockSteps \ {SecondsPerDay} : Tick(d)

SpecClient == InitClient /\ [][NextClient]_vars

\* The paramset cache of one connecting Client: fetch operations one after
\* the other and the answers of the backend.
InitCache ==
    /\ InitClient
    /\ connect = TRUE

NextCache ==
    \/ \E a \in FetchAddresses : \E k \in Kinds : \E u \in BOOLEAN :
            FetchParamset(a, k, u)
    \/ \E a \in FetchAddresses : \E adv \in SUBSET (Kinds \cup {"LINK"}) :
          \E u \in BOOLEAN :
            FetchParamsets(a, adv, u)
    \/ \E r \in DescribeAnswers : DescribeAnswer(r)

SpecCache == InitCache /\ [][NextCache]_vars

\* Two Connections of one central unit, each with its own consumer: session
\* calls, init, de-init, liveness probe and cache fetches in any
\* interleaving.
NextConnections ==
    \/ \E c \in Connections : ConnPost(c)
    \/ \E c \in Connections : ConnLogout(c)
    \/ \E c \in Connections : \E r \in {"ok"} : ConnRespond(c, r)
    \/ \E c \in Connections :
          \E op \in {"proxy_init", "is_connected", "proxy_de_init"} :
              ConnClientOperation(c, op)
    \/ \E c \in Connections : ConnFetchParamset(c, "VCU0000001:1", "VALUES", TRUE)
    \/ \E c \in Connections :
          WorkerStart(c) /\ UNCHANGED <<SessionVars, ClientVars, CacheVars, CollectorVars, FlavorVars, ConnVars>>
    \/ \E c \in Connections : \E a \in {"ok", "ProxyException"} :
          ConnLegacyAnswer(c, a) /\ executor' = executor

SpecConnections == InitCache /\ [][NextConnections]_vars

\* A connected Client under its telemetry operations, next to an init and
\* to fetches that fill the cache.
NextTelemetry ==
    \/ ProxyInit
    \/ GetServiceMessages
    \/ \E op \in DOMAIN TelemetryRpc : Telemetry(op)
    \/ \E a \in LegacyAnswers \ {"false"} : LegacyAnswer(a)
    \/ \E k \in Kinds : FetchParamset("VCU0000001:1", k, FALSE)
    \/ \E r \in BatchAnswers : DescribeAnswer(r)

SpecTelemetry == InitCache /\ [][NextTelemetry]_vars

\* The same cache under the operations that go by the device descriptions
\* the central unit knows: the descriptions arrive, the consumer calls
\* fetch_all_paramsets and update_paramsets one after the other.
NextDevices ==
    \/ \E a \in Addresses : \E adv \in AdvertisedSets :
            AddDeviceDescription(a, adv)
    \/ \E skip \in BOOLEAN : FetchAllParamsets(skip)
    \/ \E a \in Addresses : UpdateParamsets(a)
    \/ FetchParamset("VCU0000001:1", "VALUES", FALSE)
    \/ \E r \in BatchAnswers : DescribeAnswer(r)

SpecDevices == InitCache /\ [][NextDevices]_vars

\* Two tasks of the event loop on the cache of one Client: each calls
\* fetch_paramsets and fetch_all_paramsets, and the describe calls they
\* await end in any order.
NextOverlap ==
    \/ \E a \in FetchAddresses : AddDeviceDescription(a, Kinds)
    \/ \E a \in FetchAddresses : \E u \in BOOLEAN : FetchParamsets(a, Kinds, u)
    \/ \E skip \in BOOLEAN : FetchAllParamsets(skip)
    \/ \E r \in BatchAnswers : DescribeAnswer(r)
    \/ \E a \in FetchAddresses : \E u \in BOOLEAN :
            ConcurrentFetchParamsets(a, Kinds, u)
    \/ \E skip \in BOOLEAN : ConcurrentFetchAllParamsets(skip)
    \/ \E r \in BatchAnswers : ConcurrentDescribeAnswer(r)

SpecOverlap == InitCache /\ [][NextOverlap]_vars

\* One caller: decorated operations one after the other, what their
\* bodies do and the answers of the client's write calls.
NextCollector ==
    \/ \E how \in {"omitted", "keyword", "positional"} : CallOperation(1, how)
    \/ CallNested(1)
    \/ \E ch \in Channels : \E p \in Parameters : \E u \in BOOLEAN :
            SendValue(1, ch, p, u)
    \/ BodyReturn(1)
    \/ BodyRaise(1)
    \/ \E a \in WriteAnswers : WriteAnswer(1, a)

SpecCollector == InitCache /\ [][NextCollector]_vars

\* Two callers at the same time, every interleaving at the awaits: each
\* calls decorated operations that write with default batching, as turn_on
\* does: the on-time and the level of one channel, and the level of
\* another.
BindWrites == {<<"VCU0000001:1", "ON_TIME">>, <<"VCU0000001:1", "LEVEL">>,
               <<"VCU0000001:2", "LEVEL">>}

NextBind ==
    \/ \E t \in Callers : \E how \in {"omitted", "keyword", "positional"} :
            CallOperation(t, how)
    \/ \E t \in Callers : CallNested(t)
    \/ \E t \in Callers : \E w \in BindWrites : SendValue(t, w[1], w[2], TRUE)
    \/ \E t \in Callers : BodyReturn(t)
    \/ \E t \in Callers : BodyRaise(t)
    \/ \E t \in Callers : \E a \in WriteAnswers : WriteAnswer(t, a)

SpecBind == InitCache /\ [][NextBind]_vars

\* A client is resolved from the version of the backend, for every way the
\* credentials may be given or missing; the consumer calls its operations
\* one after the other, the central unit learns of devices, and the
\* connection is de-initialized.
InitFlavor ==
    /\ Init
    /\ connect = TRUE

NextFlavor ==
    \/ GetClient
    \/ \E v \in Versions : VersionAnswer(v)
    \/ \E e \in {"ProxyException", "NoConnection"} : VersionRaised(e)
    \/ \E op \in SysvarOps \ {"set_system_variable"} :
            SysvarOperation(op, NoValue)
    \/ \E value \in SysvarValues :
            SysvarOperation("set_system_variable", value)
    \/ \E a \in {"true", "false", "raise"} : LoginAnswer(a)
    \/ \E a \in {"ok", "error", "raise"} : PostAnswer(a)
    \/ \E a \in {"ok", "ProxyException", "NoConnection"} :
            SysvarLegacyAnswer(a)
    \/ FetchNames
    \/ \E found \in BOOLEAN : GetVirtualRemote(found)
    \/ \E a \in Addresses : SysvarIdle /\ AddDeviceDescription(a, {"MASTER"})
    \/ flavor # "none" /\ SysvarIdle /\ ProxyDeInit("proxy_de_init")
    \/ LogoutReturned
    \/ \E r \in {"ok", "error"} : Respond(1, r)

SpecFlavor == InitFlavor /\ [][NextFlavor]_vars


(***************************************************************************)
(* Claims                                                                  *)
(***************************************************************************)
Awaits(t, ctxs) ==
    /\ task[t].st = "wait"
    /\ task[t].stack[Len(task[t].stack)].ctx \in ctxs

Done(t, ops) == task[t].st = "done" /\ task[t].op \in ops

\* C1: legacy calls of one Connection are executed by one worker, one at a
\* time (no two of them are executing at once), and they begin to execute
\* in the order in which they were submitted (job ids count submissions).
C1_SingleWorkerFifo ==
    \A c \in Connections :
        /\ Cardinality(running[c]) <= 1
        /\ \A i \in 1..Len(started[c]) : started[c][i] = i

\* A third call of Connection 1 is executing after two others finished,
\* while a call of Connection 2 is executing too.
C1_Witness ==
    /\ started[1] = <<1, 2, 3>>
    /\ running[1] = {3}
    /\ running[2] # {}

\* C2: at most one session renewal (Session.renew or Session.login issued
\* by renew-or-login) of the Connection is in flight at any time.
C2_OneRenewalInFlight ==
    Cardinality({t \in Tasks : Awaits(t, {"login", "renew", "login_fallback"})}) <= 1

\* C3: no consumer call is sent with a session token that was last
\* obtained or renewed 90 seconds or more ago.
C3_NoStaleTokenSent ==
    \A t \in Tasks :
        Awaits(t, {"method"}) => ~task[t].stack[Len(task[t].stack)].stale

\* C4: renew-or-login on a session refreshed within the window issues no
\* network call; on a session whose window has elapsed it issues exactly
\* one Session.renew (its first call); without a session at most one call.
C4_RenewIdempotence ==
    \A t \in Tasks :
        LET k == task[t] IN
        /\ k.entry = "fresh" => k.calls = <<>>
        /\ k.entry = "elapsed" =>
              /\ k.calls # <<>>
              /\ k.calls[1] = "Session.renew"
              /\ \A i \in 2..Len(k.calls) : k.calls[i] # "Session.renew"
        /\ k.entry = "nosession" => Len(k.calls) <= 1

\* C5: after renew-or-login fell back from a rejected Session.renew to one
\* Session.login that succeeded, token and refresh timestamp are both
\* stored: an immediately following renew-or-login issues no network call.
C5_FallbackLoginStoresTimestamp ==
    \A t \in Tasks :
        (/\ Awaits(t, {"method"})
         /\ task[t].calls = <<"Session.renew", "Session.login">>)
        => task[t].stack[Len(task[t].stack)].reuse

\* C6: with a missing or empty username, or a missing or empty password,
\* no request is sent, no session token is stored and renew-or-login
\* reports failure.
C6_NoCredentialsNoLogin ==
    (username \in {PyNone, ""} \/ password \in {PyNone, ""}) =>
        /\ session_id = NoSession
        /\ \A t \in Tasks :
            /\ task[t].st # "wait"
            /\ task[t].calls = <<>>
            /\ task[t].ret # "true"

\* C7: the Connection has at most one live backend session.
C7_OneLiveSession == Cardinality(backend_live) <= 1

\* C8: a _post call that got an HTTP-200 error envelope raises AuthFailure
\* if the message begins with "access denied" and ClientException
\* otherwise, and the session token is cleared when the exception
\* reaches the caller.
C8_EnvelopeErrorClassified ==
    \A t \in Tasks :
        (Done(t, {"post", "oneshot"}) /\ task[t].orig \in EnvelopeErrors)
        => /\ task[t].out = RaisedFor(task[t].orig)
           /\ task[t].sid_exit = NoSession

\* C9: a _post call whose request failed at transport level (connection
\* refused, certificate/TLS failure, unparsable body) raises
\* ClientException and nothing else, and the session token is cleared
\* when the exception reaches the caller.
C9_TransportFailureRaisesClientException ==
    \A t \in Tasks :
        (Done(t, {"post", "oneshot"}) /\ task[t].orig \in TransportFailures)
        => /\ task[t].out = "ClientException"
           /\ task[t].sid_exit = NoSession

\* The consumer call of an established session got an unparsable body.
C9_Witness ==
    /\ Done(1, {"post"})
    /\ task[1].ret = "true"
    /\ task[1].orig = "parse"
    /\ task[1].out = "ClientException"
    /\ session_id = NoSession

\* C10: logout returns normally whatever the backend answers to
\* Session.logout, and the session token is cleared when it returns.
C10_LogoutNeverPropagates ==
    \A t \in Tasks :
        Done(t, {"logout"}) =>
            /\ task[t].out = "ok"
            /\ task[t].sid_exit = NoSession

ClientDone(ops) == client.pc = "done" /\ client.op \in ops

Raised == {"ClientException", "AuthFailure", "ProxyException", "NoConnection"}

\* The legacy RPC calls among the calls of the Client operation.
LegacyCallsOf(calls) == {i \in 1..Len(calls) : calls[i] # "logout"}

InnerOf(cl) == {cl.inner[i] : i \in 1..Len(cl.inner)}

DeInitPassed == {"PROXY_DE_INIT_SKIPPED", "PROXY_DE_INIT_SUCCESS"}

\* C11: when a system-variable operation on the JSON-RPC path ends because
\* the login failed (no token) or because AuthFailure was raised, the
\* consumer gets an exception, not a return value: neither the session
\* manager's set_system_variable nor ClientCCU.set_system_variable turns
\* the failure into a normal return.
C11_SessionFailuresPropagate ==
    \A t \in Tasks :
        (Done(t, {"post"}) /\ (task[t].ret = "false" \/ task[t].out = "AuthFailure"))
            => /\ SetSystemVariable(task[t].out) \in Raised
               /\ ClientCCU_SetSystemVariable(task[t].ret, task[t].out) \in Raised

\* C12: proxy_init never raises: however the legacy init call ends, it
\* returns skipped, failed or succeeded; and when the legacy init call
\* failed, time_initialized is 0 afterwards.
C12_ProxyInitNeverRaises ==
    ClientDone({"proxy_init"}) =>
        /\ client.out \in {"PROXY_INIT_SKIPPED", "PROXY_INIT_FAILED",
                           "PROXY_INIT_SUCCESS"}
        /\ client.answer \in {"ProxyException", "NoConnection"}
               => time_initialized = 0

\* C13: with connect = false, proxy_init and proxy_de_init return skipped
\* and issue no legacy RPC call, and is_connected returns false.
C13_NonConnectingSkips ==
    ~connect =>
        /\ ClientDone({"proxy_init"}) =>
               /\ client.out = "PROXY_INIT_SKIPPED"
               /\ LegacyCallsOf(client.calls) = {}
        /\ ClientDone({"proxy_de_init"}) =>
               /\ client.out = "PROXY_DE_INIT_SKIPPED"
               /\ LegacyCallsOf(client.calls) = {}
        /\ ClientDone({"is_connected"}) => client.out = "False"

\* C14: for an initialized Connection (time_initialized, as it is when
\* is_connected is called, is not 0), is_connected returns true only if
\* the probe succeeded and the time since time_initialized is within the
\* freshness window: once the window has passed it returns false.
C14_IsConnectedFreshness ==
    (ClientDone({"is_connected"}) /\ client.ti_entry # 0) =>
        /\ client.out = "True" =>
               /\ client.answer = "ok"
               /\ client.at - client.ti_entry < INIT_TIMEOUT
        /\ client.at - client.ti_entry >= INIT_TIMEOUT
               => client.out = "False"

\* C15: when the last legacy RPC call of a Client operation (init, de-init,
\* re-init, probe, telemetry) failed with NoConnection, time_initialized
\* is 0 once the operation has ended.
C15_NoConnectionResetsTimestamp ==
    (client.pc = "done" /\ client.answer = "NoConnection")
        => time_initialized = 0

\* C16: proxy_de_init calls the session manager's logout first whenever a
\* session is active, whatever connect and time_initialized are, and calls
\* it only then; and when the Connection was never initialized it returns
\* skipped and has issued no legacy RPC call.
C16_DeInitLogsOutFirst ==
    ClientDone({"proxy_de_init"}) =>
        /\ client.sid_entry # NoSession =>
               /\ client.calls # <<>>
               /\ client.calls[1] = "logout"
        /\ client.sid_entry = NoSession => LegacyCallsOf(client.calls) = 1..Len(client.calls)
        /\ client.ti_entry = 0 =>
               /\ client.out = "PROXY_DE_INIT_SKIPPED"
               /\ LegacyCallsOf(client.calls) = {}

\* C17: proxy_re_init goes through proxy_de_init first, and through
\* proxy_init afterwards exactly if proxy_de_init returned skipped or
\* succeeded; when proxy_de_init failed (returned failed, or raised), no
\* legacy init call was issued and time_initialized is what it was when
\* proxy_re_init was called.
C17_ReInitOnlyAfterDeInit ==
    client.op = "proxy_re_init" =>
        /\ client.inner \in {<<"proxy_de_init">>, <<"proxy_de_init", "proxy_init">>}
        /\ "proxy_init" \in InnerOf(client) => client.de_init \in DeInitPassed
        /\ client.pc = "done" =>
               /\ client.de_init # "none"
               /\ client.de_init \in DeInitPassed => "proxy_init" \in InnerOf(client)
               /\ client.de_init \notin DeInitPassed =>
                      /\ \A i \in 1..Len(client.calls) :
                             client.calls[i] # "proxy.init(init_url, interface_id)"
                      /\ time_initialized = client.ti_entry
                      /\ client.out = IF client.de_init = "PROXY_DE_INIT_FAILED"
                                      THEN "None" ELSE client.de_init

\* proxy_re_init has returned after its de-init call failed on an
\* initialized Connection.
C17_Witness ==
    /\ ClientDone({"proxy_re_init"})
    /\ client.de_init = "PROXY_DE_INIT_FAILED"
    /\ client.ti_entry # 0
    /\ client.answer = "ProxyException"

\* C18: a fetch_paramset(update=false) call that directly follows a
\* finished fetch_paramset(update=false) call for the same triple: the two
\* together issue exactly one describe call if the triple had no entry
\* before the first, and none if it had; and no fetch_paramset with
\* update=false issues a describe call for a triple that has an entry.
C18_FetchParamsetOnce ==
    [][ /\ ( /\ fetch.pc = "done"
             /\ fetch.op = "fetch_paramset" /\ ~fetch.update
             /\ fetch'.op = "fetch_paramset" /\ ~fetch'.update
             /\ fetch'.pc # "idle"
             /\ fetch'.address = fetch.address
             /\ fetch'.kind = fetch.kind )
           => Len(fetch.describes) + Len(fetch'.describes)
                  = (IF fetch.before[fetch.kind] = "missing" THEN 1 ELSE 0)
        /\ ( /\ fetch'.op = "fetch_paramset" /\ ~fetch'.update
             /\ fetch'.before[fetch'.kind] # "missing" )
           => fetch'.describes = <<>>
      ]_vars

\* C19: when a fetch operation has ended and its describe call for a kind
\* failed with ProxyException, the cache holds an entry for that triple:
\* the description it held before, or the empty set if it held none.
C19_FailedDescribeCached ==
    fetch.pc = "done" =>
        \A k \in Kinds :
            fetch.answers[k] = "ProxyException" =>
                paramsets_cache[fetch.address].kinds[k]
                    = (IF fetch.before[k] = "missing" THEN "empty"
                       ELSE fetch.before[k])

\* C20: when the describe call of fetch_paramset failed with
\* ProxyException, fetch_paramset returns normally and the cache holds for
\* every kind of the address what it held before the call.
C20_FailedDescribeSwallowed ==
    ( /\ fetch.op = "fetch_paramset"
      /\ fetch.pc = "done"
      /\ fetch.answers[fetch.kind] = "ProxyException" )
        => /\ fetch.out = "None"
           /\ paramsets_cache[fetch.address].present
           /\ paramsets_cache[fetch.address].kinds = fetch.before

\* fetch_paramset(update=true) has returned after its describe call failed
\* for a triple that had a description.
C20_Witness ==
    /\ fetch.op = "fetch_paramset"
    /\ fetch.pc = "done"
    /\ fetch.update
    /\ fetch.answers[fetch.kind] = "ProxyException"
    /\ fetch.before[fetch.kind] \in Descriptions

\* The cache operations.
CacheOps == {"fetch_paramset", "fetch_paramsets", "fetch_all_paramsets",
             "update_paramsets"}

\* A cache operation has returned (it did not raise).
FetchReturned(ops) ==
    fetch.pc = "done" /\ fetch.op \in ops /\ fetch.out = "None"

\* C21: every operation that changes the paramset cache (fetch_paramset,
\* fetch_paramsets, fetch_all_paramsets, update_paramsets) persists the
\* cache before it returns: whenever one of them has returned, the
\* persisted cache equals the in-memory cache.
C21_CachePersisted ==
    FetchReturned(CacheOps) => paramsets_saved = paramsets_cache

C23_UpdateUnknownIsNoOp ==
    [][(/\ fetch' # fetch
        /\ fetch'.op = "update_paramsets"
        /\ fetch'.address \notin fetch'.known)
       => /\ fetch'.pc = "done"
          /\ fetch'.out = "None"
          /\ fetch'.describes = <<>>
          /\ paramsets_cache' = paramsets_cache
          /\ paramsets_saved' = paramsets_saved]_vars

\* update_paramsets was called for an unknown address while another one is
\* known and cached.
C23_Witness ==
    /\ fetch.op = "update_paramsets"
    /\ fetch.pc = "done"
    /\ fetch.address \notin fetch.known
    /\ fetch.known \cap fetch.had # {}

\* The write calls of kind call that send_data of col issued for channel.
WritesTo(col, call, channel) ==
    {i \in DOMAIN col.sent : /\ col.sent[i].call = call
                             /\ col.sent[i].channel_address = channel}

\* C24: on flush the Collector decides for each channel by itself.  Once
\* send_data has returned success, a channel with exactly one written
\* parameter, or with a write to it that opted out of batching, got one
\* single-parameter write per parameter and no batched write; every other
\* channel got exactly one batched write and no single-parameter write.
C24_PerChannelDecision ==
    \A c \in DOMAIN collectors :
        LET col == collectors[c]
        IN  col.out = "True" =>
            \A i \in DOMAIN col._paramsets :
                LET ch == col._paramsets[i].channel_address
                    pr == col._paramsets[i].parameters
                IN  IF Len(pr) = 1 \/ ch \in col.opted_out
                    THEN /\ WritesTo(col, "put_paramset", ch) = {}
                         /\ Cardinality(WritesTo(col, "set_value", ch)) = Len(pr)
                         /\ \A j \in DOMAIN pr :
                                \E w \in WritesTo(col, "set_value", ch) :
                                    col.sent[w].parameters = <<pr[j]>>
                    ELSE /\ WritesTo(col, "set_value", ch) = {}
                         /\ Cardinality(WritesTo(col, "put_paramset", ch)) = 1

\* C25: send_data writes the channels in the order in which each received
\* its first write; as soon as a write call fails it returns failure and
\* issues no further write call; it returns success only if every write
\* call succeeded.
C25_OrderedFailFast ==
    \A c \in DOMAIN collectors :
        LET col == collectors[c]
            n == Len(col.sent)
        IN  /\ \A i, j \in DOMAIN col.sent :
                   i < j => ChannelIndex(col._paramsets, col.sent[i].channel_address)
                               <= ChannelIndex(col._paramsets, col.sent[j].channel_address)
            /\ \A i \in DOMAIN col.sent : i < n => col.sent[i].answer = "True"
            /\ (n > 0 /\ col.sent[n].answer = "False") => col.out = "False"
            /\ col.out = "False" => n > 0 /\ col.sent[n].answer = "False"
            /\ col.out = "True" =>
                   /\ \A i \in DOMAIN col.sent : col.sent[i].answer = "True"
                   /\ \A k \in DOMAIN col._paramsets :
                          \E i \in DOMAIN col.sent :
                              col.sent[i].channel_address =
                                  col._paramsets[k].channel_address

\* send_data returned failure after the first of two channels.
C25_Witness ==
    \E c \in DOMAIN collectors :
        /\ collectors[c].out = "False"
        /\ Len(collectors[c]._paramsets) = 2
        /\ collectors[c].pos[1] = 1

\* The collectors the wrappers of caller t created for its call.
CollectorsOf(t) == {c \in DOMAIN collectors : collectors[c].by = t}

\* C26: a pending write batch belongs to exactly one logical write.  For an
\* outermost decorated call made without a collector one Collector is
\* created; nested decorated calls that receive it add to it and do not
\* flush; it is flushed exactly once, after the body has returned; and no
\* write collected by one caller's operation is sent by another's.
C26_OneBatchPerOperation ==
    \A t \in Callers :
        LET op == decorated[t]
        IN  /\ op.pc # "idle" => Cardinality(CollectorsOf(t)) = 1
            /\ \A c \in CollectorsOf(t) :
                   LET col == collectors[c]
                   IN  /\ \A i \in DOMAIN op.frames : op.frames[i].collector = c
                       /\ col.adders \subseteq {t}
                       /\ \A i \in DOMAIN col.sent :
                              /\ col.sent[i].by = t
                              /\ HasChannel(col._paramsets,
                                            col.sent[i].channel_address)
                       /\ op.pc = "body" => col.flushes = 0 /\ col.sent = <<>>
                       /\ op.pc = "send_data" => col.flushes = 1
                       /\ (op.pc = "done" /\ op.out = "None") => col.flushes = 1

\* Both callers have added to their collectors, one of them in a nested
\* call, and one of them has flushed.
C26_Witness ==
    /\ decorated[1].pc = "done" /\ decorated[1].out = "None"
    /\ \E c \in CollectorsOf(1) : Len(collectors[c].sent) = 2
    /\ decorated[2].pc = "body" /\ Len(decorated[2].frames) = 2
    /\ \E c \in CollectorsOf(2) : collectors[c].added = 2

\* A username or password is present: given and not empty.
Present(x) == x # PyNone /\ x # ""

\* C27: the system-variable operations of a CCU-flavor client use the
\* JSON-RPC path if and only if both username and password are present:
\* with them they issue JSON-RPC requests and no legacy call, without them
\* exactly one legacy call and no JSON-RPC request.
C27_CcuSysvarDispatch ==
    (flavor = "ClientCCU" /\ sysvar.op \in SysvarOps)
    => IF Present(username) /\ Present(password)
       THEN sysvar.legacy = <<>> /\ sysvar.json # <<>>
       ELSE sysvar.json = <<>> /\ Len(sysvar.legacy) = 1

\* A CCU-flavor client with credentials has posted its request.
C27_Witness ==
    /\ flavor = "ClientCCU"
    /\ sysvar.op \in SysvarOps
    /\ sysvar.pc = "done"
    /\ Len(sysvar.json) = 2

\* C28: a Homegear-flavor client never issues a JSON-RPC request and never
\* holds an activated JSON-RPC session; its system-variable operations
\* issue one legacy call each, fetch_names that has returned issued one
\* metadata query per known device address, and get_virtual_remote returns
\* none.
C28_HomegearLegacyOnly ==
    flavor = "ClientHomegear"
    => /\ sysvar.json = <<>>
       /\ session_id = NoSession
       /\ task[1] = IdleTask
       /\ sysvar.op \in SysvarOps => sysvar.legacy = <<LegacyMethod(sysvar.op)>>
       /\ (sysvar.op = "fetch_names" /\ sysvar.pc = "done" /\ sysvar.out = "None")
          => sysvar.legacy = [i \in DOMAIN sysvar.addresses |->
                                 <<"getMetadata", sysvar.addresses[i]>>]
       /\ sysvar.op = "get_virtual_remote" => sysvar.out = "None"

\* A Homegear-flavor client with credentials has named two devices.
C28_Witness ==
    /\ flavor = "ClientHomegear"
    /\ Present(username) /\ Present(password)
    /\ sysvar.op = "fetch_names" /\ sysvar.pc = "done"
    /\ Len(sysvar.legacy) = 2

\* The strings with a markup tag or an entity sequence: "<b>", "&amp;",
\* "&#38;".
C29_Markup ==
    {<<"<", "b", ">">>, <<"&", "a", "m", "p", ";">>,
     <<"&", "#", "3", "8", ";">>}

\* The request the claim names for a value.
C29_Expected(value) ==
    CASE value.type = "bool" ->
            [method |-> "SysVar.setBool",
             value |-> [type |-> "int",
                        v |-> IF value.v = <<"T", "r", "u", "e">>
                              THEN <<"1">> ELSE <<"0">>]]
      [] value.type \in {"int", "float"} ->
            [method |-> "SysVar.setFloat", value |-> value]
      [] value.v \in C29_Markup -> [method |-> "rejected", value |-> NoValue]
      [] OTHER -> [method |-> "set_system_variable.fn", value |-> value]

\* C29: on the JSON-RPC path set_system_variable sends a boolean as 0/1
\* through SysVar.setBool, another number through SysVar.setFloat, a string
\* through the script-based setter, and no request for a string with a
\* markup tag or an entity sequence: so does the session manager's
\* set_system_variable, and so does the request a CCU-flavor client posts.
C29_SetRequestByType ==
    /\ \A value \in SysvarValues :
           SetSystemVariableRequest(value) = C29_Expected(value)
    /\ (flavor = "ClientCCU" /\ sysvar.op = "set_system_variable")
       => IF C29_Expected(sysvar.value).method = "rejected"
          THEN Len(sysvar.json) < 2
          ELSE Len(sysvar.json) = 2 => sysvar.json[2] = C29_Expected(sysvar.value)

\* The version strings with a marker: "Homegear 0.8", "pydevccu 2.1",
\* "2.0-Homegear".
C30_Marked ==
    {Homegear \o <<" ", "0", ".", "8">>, pydevccu \o <<" ", "2", ".", "1">>,
     <<"2", ".", "0", "-">> \o Homegear}

\* C30: get_client yields a Homegear-flavor client if the version string
\* contains 'Homegear' or 'pydevccu' and a CCU-flavor client for every
\* other version string; once chosen, the flavor never changes.
C30_FlavorByVersion ==
    [][/\ flavor' # "none"
          => flavor' = IF version' \in C30_Marked
                       THEN "ClientHomegear" ELSE "ClientCCU"
       /\ flavor # "none" => flavor' = flavor /\ version' = version]_vars

\* A client resolved from "2.0-Homegear" has carried out an operation.
C30_Witness ==
    /\ flavor = "ClientHomegear"
    /\ version = <<"2", ".", "0", "-">> \o Homegear
    /\ sysvar.op \in SysvarOps
    /\ sysvar.pc = "done"

\* C31: when the version query fails (NoConnection: transport failure,
\* ProxyException: remote fault) get_client fails with that failure, has
\* issued the version query exactly once, has created no client, and the
\* central unit's registries hold nothing.
C31_GetClientFailsOnce ==
    (sysvar.op = "get_client" /\ sysvar.pc = "done"
        /\ sysvar.out \notin {"ClientCCU", "ClientHomegear"})
    => /\ sysvar.out \in {"ProxyException", "NoConnection"}
       /\ sysvar.legacy = <<<<"getVersion">>>>
       /\ flavor = "none"
       /\ central = [clients |-> {}, clients_by_init_url |-> <<>>]

\* get_client has failed on a transport failure.
C31_Witness ==
    /\ sysvar.op = "get_client"
    /\ sysvar.pc = "done"
    /\ sysvar.out = "NoConnection"

\* C32: the metadata, install-mode, service-message and RSSI operations
\* never propagate a failure of their legacy RPC call: they return
\* normally, without a result when the call failed, and no step of theirs
\* changes time_initialized or the paramset cache.
C32_TelemetryNeverPropagates ==
    [][(client' # client
          /\ client'.op \in DOMAIN TelemetryRpc \cup {"get_service_messages"})
       => /\ time_initialized' = time_initialized
          /\ paramsets_cache' = paramsets_cache
          /\ client'.pc = "done"
             => client'.out = IF client'.answer = "ok" THEN "result" ELSE "None"]_vars

\* C33: when a Connection's bridge is shut down while legacy calls are
\* queued or running, none of them begins to execute after the shutdown
\* and each of them that has ended failed with NoConnection.
C33_ShutdownFailsOutstanding ==
    [][\A c \in Connections :
          executor[c].shutdown
          => /\ started'[c] = started[c]
             /\ \A j \in executor[c].outstanding \cap finished'[c] :
                    j \in executor'[c].no_connection]_vars

\* What the claim names of a Connection: session token, refresh timestamp,
\* time_initialized, call queue and paramset-cache entries.
ConnectionState(c) ==
    <<conn[c].session_id, conn[c].last_session_id_refresh,
      conn[c].time_initialized, work_queue[c], running[c],
      interface_caches[InterfaceId(c)]>>

C35_Expected(advertised) ==
    LET Advertised(k) == k \in advertised
    IN  SelectSeq(<<"VALUES", "MASTER">>, Advertised)

\* C35: a fetch_paramsets that fetches its address has, when it ends,
\* issued a describe call for exactly the allow-listed kinds the device
\* description advertises, whatever failed in between, and the cache holds
\* an empty set for each kind whose describe call failed.
C35_PerKindFailuresIsolated ==
    (fetch.op = "fetch_paramsets" /\ fetch.pc = "done"
        /\ (fetch.update \/ fetch.address \notin fetch.had))
    => /\ fetch.describes = C35_Expected(fetch.advertised)
       /\ \A k \in Kinds :
             fetch.answers[k] \in {"ProxyException", "NoConnection"}
             => paramsets_cache[fetch.address].kinds[k] = "empty"

\* C36: update_paramsets for a known address has, when it ends, issued a
\* describe call for every allow-listed kind the device advertises, cached
\* or not, and the entry of the address holds exactly those kinds: the
\* description fetched, or an empty set for a kind whose refresh failed,
\* and nothing under any other kind.
C36_UpdateRefreshesEntry ==
    (fetch.op = "update_paramsets" /\ fetch.pc = "done"
        /\ fetch.address \in fetch.known)
    => /\ fetch.describes = C35_Expected(fetch.advertised)
       /\ paramsets_cache[fetch.address].present
       /\ \A k \in Kinds :
             paramsets_cache[fetch.address].kinds[k] =
                 IF k \in fetch.advertised
                 THEN IF fetch.answers[k] \in Descriptions
                      THEN fetch.answers[k] ELSE "empty"
                 ELSE "missing"

\* A fetch_all_paramsets machine with skip_existing set to skip.
WithSkip(c, skip) == [c EXCEPT !.f.skip_existing = skip]

\* What a fetch_all_paramsets has done and has still to do: the cache and
\* what is persisted of it, the describe calls issued, the call awaited,
\* the descriptions and kinds to come, the outcome.
Course(c) ==
    [cache |-> c.cache, saved |-> c.saved, describes |-> c.f.describes,
     described |-> c.f.described, answers |-> c.f.answers,
     pc |-> c.f.pc, out |-> IF c.f.pc = "done" THEN c.f.out ELSE "none",
     awaited |-> IF c.f.pc = "describe" THEN <<c.f.address, c.f.kind>> ELSE <<>>,
     todo |-> c.f.todo, pending |-> c.f.pending]

\* C37: fetch_all_paramsets issues the same describe calls and ends in the
\* same cache state whether skip_existing is true or false: from every
\* state it can be called in, and at every answer to a describe call, the
\* two take the same course; and neither describes an address that had a
\* cache entry.
C37_SkipExistingIrrelevant ==
    /\ FetchIdle
       => LET c == BatchMachine("fetch_all_paramsets")
          IN  Course(FetchAllParamsetsStart(c, TRUE))
                  = Course(FetchAllParamsetsStart(c, FALSE))
    /\ (fetch.op = "fetch_all_paramsets" /\ fetch.pc = "describe")
       => \A r \in BatchAnswers :
             LET c == [cache |-> paramsets_cache, saved |-> paramsets_saved,
                       devices |-> devices_raw_dict,
                       f |-> [fetch EXCEPT !.answers[fetch.kind] = r]]
             IN  Course(FetchAllResume(FetchParamsetsAnswer(
                            WithSkip(c, TRUE), r)))
                     = Course(FetchAllResume(FetchParamsetsAnswer(
                                  WithSkip(c, FALSE), r)))
    /\ fetch.op = "fetch_all_paramsets" => fetch.described \cap fetch.had = {}

\* fetch_all_paramsets without skip_existing has returned: it passed over
\* an address that had an entry and described another.
C37_Witness ==
    /\ FetchReturned({"fetch_all_paramsets"})
    /\ ~fetch.skip_existing
    /\ fetch.had \cap fetch.known # {}
    /\ fetch.described # {}


\* A fetch_paramsets for address is suspended in a describe call.
Filling(f, address) == f.pc = "describe" /\ f.address = address

\* The task whose operation was g calls an operation, g2, while the
\* fetch_paramsets f of the other task is suspended.
CalledDuring(f, g, g2) ==
    \A a \in Addresses :
        (Filling(f, a) /\ g.pc \in {"idle", "done"} /\ g2 # g)
        => /\ (g2.op = "fetch_paramsets" /\ g2.address = a /\ ~g2.update)
              => /\ g2.pc = "done" /\ g2.out = "None"
                 /\ g2.describes = <<>>
                 /\ paramsets_cache' = paramsets_cache
           /\ g2.op = "fetch_all_paramsets"
              => /\ a \notin g2.described
                 /\ paramsets_cache'[a] = paramsets_cache[a]
                 /\ (\A b \in g2.known : paramsets_cache[b].present)
                    => /\ g2.pc = "done" /\ g2.out = "None"
                       /\ g2.describes = <<>>
                       /\ paramsets_saved' = paramsets_cache
           /\ (g2.op = "fetch_paramsets" /\ g2.address = a /\ g2.update)
              => /\ paramsets_cache'[a] = EmptyEntry
                 /\ g2.pc = "describe"

\* C38: while a fetch_paramsets for an address is suspended in a describe
\* call the cache holds an entry for the address; a fetch_paramsets without
\* update or a fetch_all_paramsets another task calls meanwhile issues no
\* describe call for the address and returns, leaving the entry as it is;
\* a fetch_paramsets with update called meanwhile resets the entry to empty
\* while the first goes on waiting.
C38_OverlappingFetches ==
    [][/\ \A a \in Addresses :
            (Filling(fetch, a) \/ Filling(concurrent_fetch, a))
            => paramsets_cache[a].present
       /\ CalledDuring(fetch, concurrent_fetch, concurrent_fetch')
       /\ concurrent_fetch' # concurrent_fetch => fetch' = fetch
       /\ CalledDuring(concurrent_fetch, fetch, fetch')
       /\ fetch' # fetch => concurrent_fetch' = concurrent_fetch]_vars

\* The first task began fetch_paramsets for an address that had no entry
\* and waits for the first kind; the second task, called meanwhile without
\* update, has returned without a describe call, and the entry holds no
\* kind yet.
C38_Witness ==
    /\ Filling(fetch, "VCU0000001:1")
    /\ fetch.op = "fetch_paramsets" /\ ~fetch.update
    /\ fetch.describes = <<"VALUES">>
    /\ "VCU0000001:1" \notin fetch.had
    /\ concurrent_fetch.op = "fetch_paramsets" /\ ~concurrent_fetch.update
    /\ concurrent_fetch.pc = "done" /\ concurrent_fetch.describes = <<>>
    /\ "VCU0000001:1" \in concurrent_fetch.had
    /\ paramsets_cache["VCU0000001:1"] = EmptyEntry

\* The first task's fetch_paramsets has stored VALUES and waits for MASTER;
\* the second task's fetch_paramsets with update has reset the entry.
C38_ResetWhileFilling ==
    /\ Filling(fetch, "VCU0000001:1")
    /\ fetch.op = "fetch_paramsets"
    /\ fetch.describes = <<"VALUES", "MASTER">>
    /\ fetch.answers["VALUES"] = "d1"
    /\ Filling(concurrent_fetch, "VCU0000001:1")
    /\ concurrent_fetch.update
    /\ paramsets_cache["VCU0000001:1"] = EmptyEntry

\* C39: a logout call issues at most one Session.logout request: whatever
\* the backend answers, no Session.logout is sent from the error handler
\* of the Session.logout request of a logout call.
C39_LogoutSendsOnce ==
    \A t \in Tasks :
        task[t].op = "logout" =>
            \A i \in DOMAIN task[t].stack :
                Method(task[t].stack[i].ctx) = "Session.logout" => i = 1

\* C40: a one-shot call sends its request and its Session.logout with the
\* token of its own Session.login, which is never the stored token; when
\* it has returned the session manager holds no token, whether or not one
\* was stored before, and the one-shot token is no longer valid.
C40_OneShotClearsSession ==
    \A t \in Tasks :
        task[t].op = "oneshot" =>
            /\ \A i \in DOMAIN task[t].stack :
                  task[t].stack[i].ctx \in {"method_oneshot", "logout_oneshot"}
                  => /\ i = 1
                     /\ task[t].stack[i].sid = issued
                     /\ task[t].stack[i].sid # NoSession
                     /\ task[t].stack[i].sid # session_id
            /\ (task[t].st = "done" /\ task[t].out = "ok")
               => /\ task[t].sid_exit = NoSession
                  /\ session_id = NoSession
                  /\ issued \notin backend_live

\* A one-shot call has returned; the token of the session that was kept
\* before it is still valid on the backend and no longer stored.
C40_Witness ==
    /\ Done(1, {"oneshot"})
    /\ task[1].out = "ok"
    /\ issued = 2
    /\ backend_live = {1}
    /\ session_id = NoSession

====
